---- MODULE Spec2Model ----
(***************************************************************************)
(* A model of the leann-search-api indexing and retrieval core:            *)
(* the chunker (DocumentService._chunk_text), the per-index file store     *)
(* (documents/, chunks/, metadata.json, chunk_mapping.json, index.leann),  *)
(* the document handlers, the rebuild protocol and the searcher cache.     *)
(*                                                                         *)
(* Strings are sequences of one-character strings, so that file-name       *)
(* formatting, glob matching and path sorting are computed as the code     *)
(* computes them.                                                          *)
(***************************************************************************)
EXTENDS Integers, Sequences, FiniteSets, TLC

(***************************************************************************)
(* Characters and strings                                                  *)
(***************************************************************************)

\* Code points of the characters that occur in file names of the model.
Ord(c) ==
    CASE c = "-" -> 45
      [] c = "." -> 46
      [] c = "0" -> 48
      [] c = "1" -> 49
      [] c = "2" -> 50
      [] c = "3" -> 51
      [] c = "4" -> 52
      [] c = "5" -> 53
      [] c = "6" -> 54
      [] c = "7" -> 55
      [] c = "8" -> 56
      [] c = "9" -> 57
      [] c = "_" -> 95
      [] c = "a" -> 97
      [] c = "b" -> 98
      [] c = "c" -> 99
      [] c = "h" -> 104
      [] c = "j" -> 106
      [] c = "k" -> 107
      [] c = "n" -> 110
      [] c = "o" -> 111
      [] c = "s" -> 115
      [] c = "u" -> 117

\* Python's str < str: code-point lexicographic order, a proper prefix first.
RECURSIVE StrLess(_, _)
StrLess(a, b) ==
    IF a = <<>> THEN b # <<>>
    ELSE IF b = <<>> THEN FALSE
    ELSE IF Head(a) # Head(b) THEN Ord(Head(a)) < Ord(Head(b))
    ELSE StrLess(Tail(a), Tail(b))

\* str.startswith
StartsWith(s, p) ==
    /\ Len(p) <= Len(s)
    /\ SubSeq(s, 1, Len(p)) = p

Digit(d) == <<"0", "1", "2", "3", "4", "5", "6", "7", "8", "9">>[d + 1]

\* str(i) for a non-negative integer, as an f-string formats it.
RECURSIVE IntStr(_)
IntStr(i) ==
    IF i < 10 THEN <<Digit(i)>>
    ELSE IntStr(i \div 10) \o <<Digit(i % 10)>>

ChunkInfix == <<"_", "c", "h", "u", "n", "k", "_">>
JsonSuffix == <<".", "j", "s", "o", "n">>

\* f"{doc_id}_chunk_{i}"
ChunkIdOf(doc_id, i) == doc_id \o ChunkInfix \o IntStr(i)

\* f"{chunk_id}.json", the file name of a chunk record under chunks/
ChunkFileName(chunk_id) == chunk_id \o JsonSuffix

\* chunks_path.glob(f"{doc_id}_chunk_*.json") applied to one file of chunks/:
\* the file name starts with "{doc_id}_chunk_" and ends with ".json".
GlobMatches(doc_id, chunk_id) ==
    LET name == ChunkFileName(chunk_id)
        pre == doc_id \o ChunkInfix
    IN /\ StartsWith(name, pre)
       /\ Len(name) >= Len(pre) + Len(JsonSuffix)

\* sorted(chunks_path.glob("*.json")): paths of one directory in ascending
\* order of their file names; the result lists the chunk ids (file stems).
PathLess(a, b) == StrLess(ChunkFileName(a), ChunkFileName(b))

\* The same ids in ascending order of the chunk ids themselves, without the
\* ".json" suffix the file names carry.
RECURSIVE SortedChunkIds(_)
SortedChunkIds(ids) ==
    IF ids = {} THEN <<>>
    ELSE LET first == CHOOSE x \in ids : \A y \in ids \ {x} : StrLess(x, y)
         IN <<first>> \o SortedChunkIds(ids \ {first})

RECURSIVE SortedChunkFiles(_)
SortedChunkFiles(ids) ==
    IF ids = {} THEN <<>>
    ELSE LET first == CHOOSE x \in ids : \A y \in ids \ {x} : PathLess(x, y)
         IN <<first>> \o SortedChunkFiles(ids \ {first})

(***************************************************************************)
(* The chunker, DocumentService._chunk_text                                *)
(***************************************************************************)

\* Python slice bounds: a negative index counts from the end, and both ends
\* are clamped to [0, n].
SliceIndex(i, n) ==
    IF i < 0 THEN (IF i + n < 0 THEN 0 ELSE i + n)
    ELSE IF i > n THEN n ELSE i

\* text[a:b]
PySlice(text, a, b) ==
    LET lo == SliceIndex(a, Len(text))
        hi == SliceIndex(b, Len(text))
    IN IF lo >= hi THEN <<>> ELSE SubSeq(text, lo + 1, hi)

\* text[a:]
PySliceFrom(text, a) == PySlice(text, a, Len(text))

\* text.rfind(sep, a, b): the highest index p with a <= p, p + len(sep) <= b
\* and text[p : p+len(sep)] = sep, or -1.
RFind(text, sep, a, b) ==
    LET lo == SliceIndex(a, Len(text))
        hi == SliceIndex(b, Len(text))
        hits == {p \in lo .. (hi - Len(sep)) :
                    SubSeq(text, p + 1, p + Len(sep)) = sep}
    IN IF hits = {} THEN -1
       ELSE CHOOSE p \in hits : \A q \in hits : q <= p

\* The separator list of the source, in the order it is tried.
Separators ==
    << <<"\n", "\n">>, <<"\n">>, <<"u00E3", "u20AC", "u201A">>, <<".">>, <<" ">> >>

\* The break point chosen for the window [start, end): the first separator
\* of the list found in [start + chunk_size // 2, end) decides; else end.
RECURSIVE BreakPointFrom(_, _, _, _, _)
BreakPointFrom(text, start, chunk_size, end, k) ==
    IF k > Len(Separators) THEN end
    ELSE LET sep == Separators[k]
             pos == RFind(text, sep, start + (chunk_size \div 2), end)
         IN IF pos # -1 THEN pos + Len(sep)
            ELSE BreakPointFrom(text, start, chunk_size, end, k + 1)

\* A variant that breaks at the end of the text.
BreakPointAtTextEnd(text, start, chunk_size) == Len(text)

BreakPoint(text, start, chunk_size) ==
    BreakPointFrom(text, start, chunk_size, start + chunk_size, 1)

\* Whether the iteration at cursor `start` is the last one (end >= text_len).
LastWindow(text, start, chunk_size) == start + chunk_size >= Len(text)

\* The chunk one iteration of the while loop appends.
WindowChunk(text, start, chunk_size) ==
    IF LastWindow(text, start, chunk_size) THEN PySliceFrom(text, start)
    ELSE PySlice(text, start, BreakPoint(text, start, chunk_size))

\* The cursor after an iteration that is not the last.
NextStart(text, start, chunk_size, chunk_overlap) ==
    BreakPoint(text, start, chunk_size) - chunk_overlap

\* The while loop of _chunk_text from cursor `start` with `acc` already
\* emitted.  The loop's only state is the cursor, so `fuel` iterations without
\* reaching the end mean the call never returns: done = FALSE.
RECURSIVE ChunkLoop(_, _, _, _, _, _)
ChunkLoop(text, chunk_size, chunk_overlap, start, acc, fuel) ==
    IF ~(start < Len(text)) THEN [done |-> TRUE, chunks |-> acc]
    ELSE IF fuel = 0 THEN [done |-> FALSE, chunks |-> acc]
    ELSE IF LastWindow(text, start, chunk_size)
         THEN [done |-> TRUE,
               chunks |-> Append(acc, WindowChunk(text, start, chunk_size))]
    ELSE ChunkLoop(text, chunk_size, chunk_overlap,
                   NextStart(text, start, chunk_size, chunk_overlap),
                   Append(acc, WindowChunk(text, start, chunk_size)),
                   fuel - 1)

\* _chunk_text(text, chunk_size, chunk_overlap)
ChunkText(text, chunk_size, chunk_overlap) ==
    IF text = <<>> THEN [done |-> TRUE, chunks |-> <<>>]
    ELSE ChunkLoop(text, chunk_size, chunk_overlap, 0, <<>>,
                   Len(text) + chunk_size + 1)

(***************************************************************************)
(* Bounds of the model                                                     *)
(***************************************************************************)

\* Longest text given to the stand-alone chunker.
MaxTextLen == 5
\* Largest chunk_size given to the stand-alone chunker.
MaxChunkSize == 4
\* Most input documents in one AddDocuments batch.
MaxBatch == 2
\* Cap of the running chunk_count counter of metadata.json.
MaxChunkCount == 4
\* Cap of the running total_characters counter of metadata.json.
MaxTotalChars == 5

\* Longest content of the documents read back chunk by chunk.
MaxReadLen == 12

\* Cap of the number of distinct builds that stepped rebuild passes produce.
MaxBuilds == 2

\* Chunks recorded for one stand-alone chunker call; a call that returns
\* emits at most one chunk per cursor position, so only a call that never
\* returns reaches this; the record then starts over with the next chunk.
MaxEmit == MaxTextLen + MaxChunkSize + 1

VARIABLES
    ct,              \* the frame of one _chunk_text call, stepped per iteration
    index_exists,    \* the index directory exists
    index_meta,      \* metadata.json: settings and running counters
    docs,            \* documents/<doc_id>.json, by doc_id
    chunks,          \* chunks/<chunk_id>.json, by chunk_id (file stem)
    chunk_mapping,   \* chunk_mapping.json, the OrdinalMap
    leann_index,     \* index.leann, the ANN artifact
    searcher_cache,  \* SearchService._searcher_cache entry for the index
    leann_available, \* whether the leann package can be imported
    ingest,          \* per worker process, the frame of its add_documents call
    rebuild,         \* the frame of a rebuild_index call stepped per file access
    builds,          \* the (artifact, OrdinalMap) pairs that build passes produced
    last             \* the last handler call and what it returned

vars == <<ct, index_exists, index_meta, docs, chunks, chunk_mapping,
          leann_index, searcher_cache, leann_available, ingest, rebuild,
          builds, last>>

storeVars == <<index_exists, index_meta, docs, chunks, chunk_mapping,
               leann_index, searcher_cache, leann_available, ingest, rebuild,
               builds, last>>

(***************************************************************************)
(* The chunker stepped one loop iteration at a time                        *)
(***************************************************************************)

TextAlphabet == {"x", " ", "."}

RECURSIVE TextsOfLen(_)
TextsOfLen(n) ==
    IF n = 0 THEN {<<>>}
    ELSE {Append(t, c) : t \in TextsOfLen(n - 1), c \in TextAlphabet}

ChunkerTexts == UNION {TextsOfLen(n) : n \in 0 .. MaxTextLen}

\* No _chunk_text call in progress.
IdleFrame ==
    [text |-> <<>>, start |-> 0, chunk_size |-> 0, chunk_overlap |-> 0,
     chunks |-> <<>>, pc |-> "idle"]

\* Entry of _chunk_text: `if not text: return []`, else start = 0.
ChunkEnter ==
    /\ ct.pc = "call"
    /\ ct' = [ct EXCEPT !.pc = IF ct.text = <<>> THEN "done" ELSE "loop"]
    /\ UNCHANGED storeVars

\* One evaluation of the while condition and, when it holds, one iteration.
ChunkIterate ==
    /\ ct.pc = "loop"
    /\ LET emitted ==
               IF Len(ct.chunks) < MaxEmit
               THEN Append(ct.chunks, WindowChunk(ct.text, ct.start, ct.chunk_size))
               ELSE <<WindowChunk(ct.text, ct.start, ct.chunk_size)>>
       IN ct' =
           IF ~(ct.start < Len(ct.text)) THEN [ct EXCEPT !.pc = "done"]
           ELSE IF LastWindow(ct.text, ct.start, ct.chunk_size)
                THEN [ct EXCEPT !.pc = "done", !.chunks = emitted]
           ELSE [ct EXCEPT !.chunks = emitted,
                           !.start = NextStart(ct.text, ct.start, ct.chunk_size,
                                               ct.chunk_overlap)]
    /\ UNCHANGED storeVars

(***************************************************************************)
(* Values stored in the files of an index                                  *)
(***************************************************************************)

\* JSON values as Python holds them: None, bool, int, str and list.
JNull == [t |-> "null", v |-> 0]
JBool(b) == [t |-> "bool", v |-> b]
JInt(n) == [t |-> "int", v |-> n]
JStr(chars) == [t |-> "str", v |-> chars]
JList(items) == [t |-> "list", v |-> items]

\* bool is a subclass of int: True and False count as 1 and 0.
IsNumber(x) == x.t \in {"bool", "int"}
Num(x) == IF x.t = "bool" THEN (IF x.v THEN 1 ELSE 0) ELSE x.v

\* Python's ==, which never raises on these values.
RECURSIVE PyEq(_, _)
PyEq(a, b) ==
    IF IsNumber(a) /\ IsNumber(b) THEN Num(a) = Num(b)
    ELSE IF a.t # b.t THEN FALSE
    ELSE IF a.t = "null" THEN TRUE
    ELSE IF a.t = "str" THEN a.v = b.v
    ELSE /\ Len(a.v) = Len(b.v)
         /\ \A i \in 1 .. Len(a.v) : PyEq(a.v[i], b.v[i])

\* The three-way outcome of Python's ordering operators on a and b: "lt",
\* "eq", "gt", or "raise" (TypeError) when the types have no order.
RECURSIVE PyCmp(_, _)
PyCmp(a, b) ==
    IF IsNumber(a) /\ IsNumber(b)
    THEN IF Num(a) < Num(b) THEN "lt" ELSE IF Num(a) = Num(b) THEN "eq" ELSE "gt"
    ELSE IF a.t = "str" /\ b.t = "str"
    THEN IF a.v = b.v THEN "eq" ELSE IF StrLess(a.v, b.v) THEN "lt" ELSE "gt"
    ELSE IF a.t = "list" /\ b.t = "list"
    THEN LET differ == {i \in 1 .. Len(a.v) :
                           i <= Len(b.v) /\ ~PyEq(a.v[i], b.v[i])}
         IN IF differ # {}
            THEN LET i == CHOOSE x \in differ : \A y \in differ : x <= y
                 IN PyCmp(a.v[i], b.v[i])
            ELSE IF Len(a.v) < Len(b.v) THEN "lt"
            ELSE IF Len(a.v) = Len(b.v) THEN "eq" ELSE "gt"
    ELSE "raise"

\* a contiguous occurrence of `sub` in `chars`
IsSubstring(sub, chars) ==
    \E i \in 0 .. (Len(chars) - Len(sub)) : SubSeq(chars, i + 1, i + Len(sub)) = sub

\* str.endswith
EndsWith(chars, suffix) ==
    /\ Len(suffix) <= Len(chars)
    /\ SubSeq(chars, Len(chars) - Len(suffix) + 1, Len(chars)) = suffix

\* `x in container`: "true", "false", or "raise" (TypeError) when the
\* container is not iterable or is a str asked for a non-str.
PyIn(x, container) ==
    IF container.t = "list"
    THEN IF \E i \in 1 .. Len(container.v) : PyEq(container.v[i], x)
         THEN "true" ELSE "false"
    ELSE IF container.t = "str"
    THEN IF x.t # "str" THEN "raise"
         ELSE IF IsSubstring(x.v, container.v) THEN "true" ELSE "false"
    ELSE "raise"

\* `value is True` with truthiness in place of identity.
IsTruthy(value) ==
    \/ (IsNumber(value) /\ Num(value) # 0)
    \/ (value.t \in {"str", "list"} /\ value.v # <<>>)

\* `value is True`, `value is False`
IsTrue(value) == value = JBool(TRUE)
IsFalse(value) == value = JBool(FALSE)

\* The outcome of `if <test>: return False` where the test evaluates to
\* `test`: "false" when the test holds, "true" (go on) when it does not,
\* "raise" when it raised.
ReturnFalseIf(test) ==
    IF test = "raise" THEN "raise" ELSE IF test = "true" THEN "false" ELSE "true"

Not(test) ==
    IF test = "raise" THEN "raise" ELSE IF test = "true" THEN "false" ELSE "true"

Bool(b) == IF b THEN "true" ELSE "false"

\* The operators _matches_filter has a branch for.
KnownOps ==
    {"==", "!=", "<", "<=", ">", ">=", "in", "not_in", "contains",
     "starts_with", "ends_with", "is_true", "is_false"}

\* One branch of the if/elif chain over `op`: "true" when the loop goes on,
\* "false" when the branch returns False, "raise" when it raises.  An op
\* without a branch falls through the chain.
EvalOp(value, op, expected) ==
    CASE op = "==" -> ReturnFalseIf(Bool(~PyEq(value, expected)))
      [] op = "!=" -> ReturnFalseIf(Bool(PyEq(value, expected)))
      [] op = "<" ->
           IF value = JNull THEN "false"
           ELSE LET c == PyCmp(value, expected)
                IN IF c = "raise" THEN "raise" ELSE Bool(c = "lt")
      [] op = "<=" ->
           IF value = JNull THEN "false"
           ELSE LET c == PyCmp(value, expected)
                IN IF c = "raise" THEN "raise" ELSE Bool(c \in {"lt", "eq"})
      [] op = ">" ->
           IF value = JNull THEN "false"
           ELSE LET c == PyCmp(value, expected)
                IN IF c = "raise" THEN "raise" ELSE Bool(c = "gt")
      [] op = ">=" ->
           IF value = JNull THEN "false"
           ELSE LET c == PyCmp(value, expected)
                IN IF c = "raise" THEN "raise" ELSE Bool(c \in {"gt", "eq"})
      [] op = "in" -> ReturnFalseIf(Not(PyIn(value, expected)))
      [] op = "not_in" -> ReturnFalseIf(PyIn(value, expected))
      [] op = "contains" ->
           IF value.t \in {"str", "list"}
           THEN ReturnFalseIf(Not(PyIn(expected, value)))
           ELSE "false"
      [] op = "starts_with" ->
           IF value.t # "str" THEN "false"
           ELSE IF expected.t # "str" THEN "raise"
           ELSE Bool(StartsWith(value.v, expected.v))
      [] op = "ends_with" ->
           IF value.t # "str" THEN "false"
           ELSE IF expected.t # "str" THEN "raise"
           ELSE Bool(EndsWith(value.v, expected.v))
      [] op = "is_true" -> Bool(IsTrue(value))
      [] op = "is_false" -> Bool(IsFalse(value))
      [] OTHER -> "true"

\* metadata.get(field) on a dict
MetadataGet(metadata, field) ==
    IF field \in DOMAIN metadata.map THEN metadata.map[field] ELSE JNull

\* `for op, expected in condition.items()` from the k-th pair on.
RECURSIVE EvalOps(_, _, _)
EvalOps(value, ops, k) ==
    IF k > Len(ops) THEN "true"
    ELSE LET r == EvalOp(value, ops[k].op, ops[k].operand)
         IN IF r # "true" THEN r ELSE EvalOps(value, ops, k + 1)

\* A condition that is not a dict: implicit equality with the scalar.
Scalar(v) == [value |-> v, ops |-> <<>>, dict |-> FALSE]
\* A condition dict, its (op, operand) items in order.
Ops(ops) == [value |-> JNull, ops |-> ops, dict |-> TRUE]
OpItem(op, operand) == [op |-> op, operand |-> operand]
FilterItem(field, condition) == [field |-> field, condition |-> condition]

\* _matches_filter(metadata, filters) from the k-th (field, condition) item
\* on: "true", "false", or "raise"; metadata None raises AttributeError at
\* the first metadata.get.
RECURSIVE MatchesFrom(_, _, _)
MatchesFrom(metadata, filters, k) ==
    IF k > Len(filters) THEN "true"
    ELSE IF metadata.null THEN "raise"
    ELSE LET value == MetadataGet(metadata, filters[k].field)
             condition == filters[k].condition
             r == IF condition.dict
                  THEN EvalOps(value, condition.ops, 1)
                  ELSE Bool(PyEq(value, condition.value))
         IN IF r # "true" THEN r ELSE MatchesFrom(metadata, filters, k + 1)

MatchesFilter(metadata, filters) == MatchesFrom(metadata, filters, 1)

\* A metadata value: Python None, or a dict (string keys to scalars).
NoMetadata == [map |-> <<>>, null |-> TRUE]
Dict(m) == [map |-> m, null |-> FALSE]

\* bool(metadata): None and the empty dict are falsy.
Truthy(metadata) == ~metadata.null /\ DOMAIN metadata.map # {}

\* {**new, **old}: the keys of the stored dict win.
DictMergeOldWins(old, new) ==
    Dict([k \in (DOMAIN old.map) \cup (DOMAIN new.map) |->
            IF k \in DOMAIN old.map THEN old.map[k] ELSE new.map[k]])

\* {**old, **new}
DictMerge(old, new) ==
    Dict([k \in (DOMAIN old.map) \cup (DOMAIN new.map) |->
            IF k \in DOMAIN new.map THEN new.map[k] ELSE old.map[k]])

\* An optional request field: absent (None) or given with a value.
Absent == [value |-> <<>>, given |-> FALSE]
Given(v) == [value |-> v, given |-> TRUE]

\* Document ids of the requests.  The second id starts with the first one
\* followed by "_chunk_0", and continues with a character below "." .
DocA == <<"a">>
DocAChunk == <<"a", "_", "c", "h", "u", "n", "k", "_", "0", "-">>
DocIds == {DocA, DocAChunk}

\* Contents of the requests: one chunk, and two chunks under the settings.
TextShort == <<"x">>
TextLong == <<"y", " ", "y", "x">>
Contents == {TextShort, TextLong}

\* Metadata dicts of the requests.
MetaK == Dict([k |-> JInt(1)])
MetaEmpty == Dict(<<>>)
MetaKJ == Dict([k |-> JInt(1), j |-> JInt(1)])
MetaK2 == Dict([k |-> JInt(2)])

\* IndexSettings of the requests (chunk_size, chunk_overlap).
SettingsChoices == {[chunk_size |-> 3, chunk_overlap |-> 1]}

\* DocumentAddOptions.chunk_size / chunk_overlap not given: 0
\* (`chunk_size or settings.chunk_size` treats None and 0 alike).
NotGiven == {0}

\* The empty directory listing / JSON object.
NoFiles == <<>>

\* A variant that stamps the new index as updated.
NewIndexMetaUpdated(settings) ==
    [chunk_size |-> settings.chunk_size,
     chunk_overlap |-> settings.chunk_overlap,
     chunk_count |-> 0,
     total_characters |-> 0,
     updated_at |-> TRUE]

\* metadata.json as create_index writes it.
NewIndexMeta(settings) ==
    [chunk_size |-> settings.chunk_size,
     chunk_overlap |-> settings.chunk_overlap,
     chunk_count |-> 0,
     total_characters |-> 0,
     updated_at |-> FALSE]

\* No metadata.json: the index directory does not exist.
NoIndexMeta ==
    [chunk_size |-> 0, chunk_overlap |-> 0, chunk_count |-> 0,
     total_characters |-> 0, updated_at |-> FALSE]

\* index.leann: absent, or the texts given to add_text in order.
NoArtifact == [exists |-> FALSE, texts |-> <<>>]
\* _searcher_cache: no entry, or a searcher holding the artifact it opened.
NoSearcher == [texts |-> <<>>, cached |-> FALSE]

\* The chunk files on disk that the glob of doc_id selects.
GlobChunks(chs, doc_id) == {c \in DOMAIN chs : GlobMatches(doc_id, c)}

\* A function without the keys in `gone`.
Without(f, gone) == [k \in (DOMAIN f) \ gone |-> f[k]]

\* A function with key k set to v (added or overwritten).
WithKey(f, k, v) == [x \in (DOMAIN f) \cup {k} |-> IF x = k THEN v ELSE f[x]]

(***************************************************************************)
(* DocumentService.add_documents                                           *)
(***************************************************************************)

\* The inverted test `existing and update_if_exists`.
RefusesWhenUpdating(dcs, doc_id, update_if_exists) ==
    doc_id \in DOMAIN dcs /\ update_if_exists

\* `existing and not update_if_exists`: the input is refused.
RefusesExisting(dcs, doc_id, update_if_exists) ==
    doc_id \in DOMAIN dcs /\ ~update_if_exists

\* chunks/ after the loop `for i, chunk_content in enumerate(chunks)`.
RECURSIVE WriteChunks(_, _, _, _, _)
WriteChunks(chs, doc_id, pieces, metadata, i) ==
    IF i >= Len(pieces) THEN chs
    ELSE WriteChunks(
             WithKey(chs, ChunkIdOf(doc_id, i),
                     [metadata |-> metadata, document_id |-> doc_id,
                      content |-> pieces[i + 1], position |-> i]),
             doc_id, pieces, metadata, i + 1)

\* The body of `for doc in documents` for one input, on the accumulated
\* state acc = [docs, chunks, results, total_chunks, total_chars, hung].
AddOne(acc, doc, chunk_size, chunk_overlap, update_if_exists) ==
    LET existing == doc.id \in DOMAIN acc.docs
        cut == ChunkText(doc.content, chunk_size, chunk_overlap)
        pieces == cut.chunks
    IN IF acc.hung THEN acc
       ELSE IF RefusesExisting(acc.docs, doc.id, update_if_exists)
       THEN [acc EXCEPT !.results =
                 Append(@, [chunk_count |-> 0, id |-> doc.id,
                            status |-> "failed",
                            error |-> "Document already exists"])]
       ELSE IF ~cut.done THEN [acc EXCEPT !.hung = TRUE]
       ELSE [chunks |-> WriteChunks(acc.chunks, doc.id, pieces, doc.metadata, 0),
             docs |-> WithKey(acc.docs, doc.id,
                              [metadata |-> doc.metadata,
                               chunk_count |-> Len(pieces),
                               content |-> doc.content]),
             hung |-> FALSE,
             results |-> Append(acc.results,
                                [chunk_count |-> Len(pieces), id |-> doc.id,
                                 status |-> IF existing THEN "updated" ELSE "added",
                                 error |-> ""]),
             total_chunks |-> acc.total_chunks + Len(pieces),
             total_chars |-> acc.total_chars + Len(doc.content)]

RECURSIVE AddLoop(_, _, _, _, _, _)
AddLoop(acc, documents, k, chunk_size, chunk_overlap, update_if_exists) ==
    IF k > Len(documents) THEN acc
    ELSE AddLoop(AddOne(acc, documents[k], chunk_size, chunk_overlap,
                        update_if_exists),
                 documents, k + 1, chunk_size, chunk_overlap, update_if_exists)

\* IndexService.update_metadata(name, chunk_count, total_characters)
UpdateMetadata(meta, chunk_count, total_characters) ==
    [meta EXCEPT !.updated_at = TRUE,
                 !.chunk_count = chunk_count,
                 !.total_characters = total_characters]

\* The request bodies built from a set of input documents: non-empty lists
\* of at most MaxBatch documents.
Batches(inputs) == UNION {[1 .. n -> inputs] : n \in 1 .. MaxBatch}

\* The response of a handler that found no index: HTTP 404, nothing touched.
IndexNotFound(op) ==
    /\ ~index_exists
    /\ last' = [op |-> op, code |-> 404, arg |-> <<>>, ret |-> <<>>]
    /\ UNCHANGED <<ct, ingest, rebuild, builds, index_exists, index_meta, docs,
                   chunks, chunk_mapping, leann_index, searcher_cache,
                   leann_available>>

\* POST /indexes/{name}/documents
AddDocuments(inputs, opt_sizes, opt_overlaps) ==
    \/ IndexNotFound("add_documents")
    \/ /\ index_exists
       /\ \E documents \in Batches(inputs), update_if_exists \in BOOLEAN,
             opt_size \in opt_sizes, opt_overlap \in opt_overlaps :
            LET chunk_size ==
                    IF opt_size # 0 THEN opt_size ELSE index_meta.chunk_size
                chunk_overlap ==
                    IF opt_overlap # 0 THEN opt_overlap ELSE index_meta.chunk_overlap
            IN \E out \in {AddLoop([chunks |-> chunks, docs |-> docs,
                                    hung |-> FALSE, results |-> <<>>,
                                    total_chunks |-> 0, total_chars |-> 0],
                                   documents, 1, chunk_size, chunk_overlap,
                                   update_if_exists)} :
               /\ ~out.hung
               /\ index_meta.chunk_count + out.total_chunks <= MaxChunkCount
               /\ index_meta.total_characters + out.total_chars <= MaxTotalChars
               /\ docs' = out.docs
               /\ chunks' = out.chunks
               /\ index_meta' =
                      UpdateMetadata(index_meta,
                                     index_meta.chunk_count + out.total_chunks,
                                     index_meta.total_characters + out.total_chars)
               /\ last' = [op |-> "add_documents", code |-> 200,
                           arg |-> [ids |-> [k \in 1 .. Len(documents) |->
                                                documents[k].id],
                                    update_if_exists |-> update_if_exists],
                           ret |-> out.results]
       /\ UNCHANGED <<ct, ingest, rebuild, builds, index_exists, chunk_mapping,
                      leann_index, searcher_cache, leann_available>>

(***************************************************************************)
(* DocumentService: update_document, update_metadata_only, delete_document *)
(***************************************************************************)

\* The response of a handler that found no such document: HTTP 404.
DocumentNotFound(op, doc_id) ==
    /\ last' = [op |-> op, code |-> 404, arg |-> [id |-> doc_id], ret |-> <<>>]
    /\ UNCHANGED <<ct, ingest, rebuild, builds, index_exists, index_meta, docs,
                   chunks, chunk_mapping, leann_index, searcher_cache,
                   leann_available>>

\* "Merge or replace metadata" of update_document; `metadata` is the optional
\* request field.
NewMetadata(existing, metadata, merge_metadata) ==
    IF metadata.given
    THEN IF merge_metadata /\ Truthy(existing.metadata)
         THEN DictMerge(existing.metadata, metadata.value)
         ELSE metadata.value
    ELSE existing.metadata

\* chunks/ after rewriting the metadata of every file the glob selects.
SetChunkMetadata(chs, doc_id, metadata) ==
    [c \in DOMAIN chs |->
        IF GlobMatches(doc_id, c) THEN [chs[c] EXCEPT !.metadata = metadata]
        ELSE chs[c]]

\* The chunk files delete_document and update_document unlink.
UnlinkChunks(chs, doc_id) == Without(chs, GlobChunks(chs, doc_id))

\* An optional request field over a set of values.
Optional(values) == {Absent} \cup {Given(v) : v \in values}

\* PUT /indexes/{name}/documents/{document_id}
UpdateDocument(contents, metadatas) ==
    \/ IndexNotFound("update_document")
    \/ /\ index_exists
       /\ \E doc_id \in DocIds, content \in Optional(contents),
             metadata \in Optional(metadatas), merge_metadata \in BOOLEAN :
            IF doc_id \notin DOMAIN docs
            THEN DocumentNotFound("update_document", doc_id)
            ELSE LET existing == docs[doc_id]
                     new_metadata == NewMetadata(existing, metadata, merge_metadata)
                     cut == ChunkText(content.value, index_meta.chunk_size,
                                      index_meta.chunk_overlap)
                 IN /\ content.given => cut.done
                    /\ chunks' =
                         IF content.given
                         THEN WriteChunks(UnlinkChunks(chunks, doc_id), doc_id,
                                          cut.chunks, new_metadata, 0)
                         ELSE IF metadata.given
                              THEN SetChunkMetadata(chunks, doc_id, new_metadata)
                              ELSE chunks
                    /\ docs' =
                         [docs EXCEPT ![doc_id] =
                            [metadata |-> new_metadata,
                             chunk_count |-> IF content.given THEN Len(cut.chunks)
                                             ELSE existing.chunk_count,
                             content |-> IF content.given THEN content.value
                                         ELSE existing.content]]
                    /\ last' = [op |-> "update_document", code |-> 200,
                                arg |-> [metadata |-> metadata, id |-> doc_id,
                                         merge |-> merge_metadata],
                                ret |-> [chunk_count |-> docs'[doc_id].chunk_count,
                                         status |-> "updated"]]
                    /\ UNCHANGED <<ct, ingest, rebuild, builds, index_exists,
                                   index_meta, chunk_mapping, leann_index,
                                   searcher_cache, leann_available>>

\* PATCH /indexes/{name}/documents/{document_id}/metadata
UpdateMetadataOnly(metadatas) ==
    \/ IndexNotFound("update_metadata_only")
    \/ /\ index_exists
       /\ \E doc_id \in DocIds, metadata \in metadatas, merge \in BOOLEAN :
            IF doc_id \notin DOMAIN docs
            THEN DocumentNotFound("update_metadata_only", doc_id)
            ELSE LET existing == docs[doc_id]
                     new_metadata == NewMetadata(existing, Given(metadata), merge)
                 IN /\ docs' = [docs EXCEPT ![doc_id].metadata = new_metadata]
                    /\ chunks' = SetChunkMetadata(chunks, doc_id, new_metadata)
                    /\ last' = [op |-> "update_metadata_only", code |-> 200,
                                arg |-> [metadata |-> Given(metadata),
                                         id |-> doc_id,
                                         merge |-> merge],
                                ret |-> new_metadata]
                    /\ UNCHANGED <<ct, ingest, rebuild, builds, index_exists,
                                   index_meta, chunk_mapping, leann_index,
                                   searcher_cache, leann_available>>

\* The ChunkInfo list of get_document: the files of
\* sorted(chunks_path.glob(f"{doc_id}_chunk_*.json")) in that order.
DocumentChunks(chs, doc_id) ==
    LET chunk_files == SortedChunkFiles(GlobChunks(chs, doc_id))
    IN [i \in 1 .. Len(chunk_files) |->
           [chunk_id |-> chunk_files[i],
            content |-> chs[chunk_files[i]].content,
            position |-> chs[chunk_files[i]].position]]

\* GET /indexes/{name}/documents/{document_id}
GetDocument ==
    \/ IndexNotFound("get_document")
    \/ /\ index_exists
       /\ \E doc_id \in DocIds :
            IF doc_id \notin DOMAIN docs
            THEN DocumentNotFound("get_document", doc_id)
            ELSE /\ last' = [op |-> "get_document", code |-> 200,
                             arg |-> [id |-> doc_id],
                             ret |-> [chunks |-> DocumentChunks(chunks, doc_id),
                                      metadata |-> docs[doc_id].metadata,
                                      chunk_count |-> docs[doc_id].chunk_count,
                                      content |-> docs[doc_id].content,
                                      id |-> doc_id]]
                 /\ UNCHANGED <<ct, ingest, rebuild, builds, index_exists,
                                index_meta, docs, chunks, chunk_mapping,
                                leann_index, searcher_cache, leann_available>>

\* A variant that unlinks the document file only.
DeleteFilesKeepChunks(st, doc_id) ==
    IF doc_id \notin DOMAIN st.docs THEN [st EXCEPT !.deleted = FALSE]
    ELSE [chunks |-> st.chunks,
          docs |-> Without(st.docs, {doc_id}),
          deleted |-> TRUE,
          count |-> st.count]

\* DocumentService.delete_document on the files: the document file and the
\* chunk files its glob selects are unlinked; nothing else is written.
DeleteFiles(st, doc_id) ==
    IF doc_id \notin DOMAIN st.docs THEN [st EXCEPT !.deleted = FALSE]
    ELSE [chunks |-> UnlinkChunks(st.chunks, doc_id),
          docs |-> Without(st.docs, {doc_id}),
          deleted |-> TRUE,
          count |-> st.count]

\* DELETE /indexes/{name}/documents/{document_id}
DeleteDocument ==
    \/ IndexNotFound("delete_document")
    \/ /\ index_exists
       /\ \E doc_id \in DocIds :
            IF doc_id \notin DOMAIN docs
            THEN DocumentNotFound("delete_document", doc_id)
            ELSE LET out == DeleteFiles([chunks |-> chunks, docs |-> docs,
                                         deleted |-> FALSE, count |-> 0], doc_id)
                 IN /\ docs' = out.docs
                    /\ chunks' = out.chunks
                    /\ last' = [op |-> "delete_document", code |-> 200,
                                arg |-> [id |-> doc_id], ret |-> out.deleted]
                    /\ UNCHANGED <<ct, ingest, rebuild, builds, index_exists,
                                   index_meta, chunk_mapping, leann_index,
                                   searcher_cache, leann_available>>

\* The loop of bulk_delete over document_ids, counting the deletions made.
RECURSIVE BulkDeleteIds(_, _, _)
BulkDeleteIds(st, document_ids, k) ==
    IF k > Len(document_ids) THEN st
    ELSE LET out == DeleteFiles(st, document_ids[k])
         IN BulkDeleteIds([out EXCEPT !.count =
                               IF out.deleted THEN @ + 1 ELSE @],
                          document_ids, k + 1)

IdLists == UNION {[1 .. n -> DocIds] : n \in 1 .. MaxBatch}

\* The orders in which docs_path.glob("*.json") may list the document files.
GlobOrders(dcs) ==
    {order \in [1 .. Cardinality(DOMAIN dcs) -> DOMAIN dcs] :
        \A i, j \in DOMAIN order : i # j => order[i] # order[j]}

\* The loop of bulk_delete over the listed document files from the k-th on:
\* a document whose metadata passes the filter is deleted and counted; an
\* exception of the filter is passed over.
RECURSIVE BulkDeleteMatching(_, _, _, _, _)
BulkDeleteMatching(st, dcs, metadata_filter, order, k) ==
    IF k > Len(order) THEN st
    ELSE LET out == IF MatchesFilter(dcs[order[k]].metadata,
                                     metadata_filter) = "true"
                    THEN DeleteFiles(st, order[k])
                    ELSE [st EXCEPT !.deleted = FALSE]
         IN BulkDeleteMatching([out EXCEPT !.count =
                                    IF out.deleted THEN @ + 1 ELSE @],
                               dcs, metadata_filter, order, k + 1)

\* `if document_ids:` - None and the empty list select no ids.
ProvidedIds(document_ids) == document_ids.given /\ document_ids.value # <<>>

\* `elif metadata_filter:` - None and the empty dict select no filter.
ProvidedFilter(metadata_filter) ==
    metadata_filter.given /\ metadata_filter.value # <<>>

\* POST /indexes/{name}/documents/bulk-delete.  Both request fields are
\* optional; an empty list and an empty filter count as not provided.
BulkDelete(id_choices, filter_choices) ==
    \/ IndexNotFound("bulk_delete")
    \/ /\ index_exists
       /\ \E document_ids \in id_choices, metadata_filter \in filter_choices :
          \E arg \in {[document_ids |-> document_ids,
                       metadata_filter |-> metadata_filter]} :
          \E st \in {[chunks |-> chunks, docs |-> docs,
                      deleted |-> FALSE, count |-> 0]} :
            IF ~ProvidedIds(document_ids) /\ ~ProvidedFilter(metadata_filter)
            THEN /\ last' = [op |-> "bulk_delete", code |-> 400,
                             arg |-> arg, ret |-> <<>>]
                 /\ UNCHANGED <<docs, chunks>>
            ELSE \E out \in
                     IF ProvidedIds(document_ids)
                     THEN {BulkDeleteIds(st, document_ids.value, 1)}
                     ELSE {BulkDeleteMatching(st, docs, metadata_filter.value,
                                              order, 1) :
                              order \in GlobOrders(docs)} :
                    /\ docs' = out.docs
                    /\ chunks' = out.chunks
                    /\ last' = [op |-> "bulk_delete", code |-> 200,
                                arg |-> arg, ret |-> out.count]
       /\ UNCHANGED <<ct, ingest, rebuild, builds, index_exists, index_meta,
                      chunk_mapping, leann_index, searcher_cache,
                      leann_available>>

(***************************************************************************)
(* IndexService: status, create, delete, rebuild                           *)
(***************************************************************************)

\* IndexService._get_index_status
IndexStatus ==
    IF Cardinality(DOMAIN docs) = 0 THEN "empty"
    ELSE IF leann_index.exists THEN "ready"
    ELSE "building"

\* POST /indexes
CreateIndex(choices) ==
    \E settings \in choices :
        IF index_exists
        THEN /\ last' = [op |-> "create_index", code |-> 409, arg |-> <<>>,
                         ret |-> <<>>]
             /\ UNCHANGED <<ct, ingest, rebuild, builds, index_exists,
                            index_meta, docs, chunks, chunk_mapping,
                            leann_index, searcher_cache, leann_available>>
        ELSE /\ index_exists' = TRUE
             /\ index_meta' = NewIndexMeta(settings)
             /\ last' = [op |-> "create_index", code |-> 200, arg |-> <<>>,
                         ret |-> "empty"]
             /\ UNCHANGED <<ct, ingest, rebuild, builds, docs, chunks,
                            chunk_mapping, leann_index, searcher_cache,
                            leann_available>>

\* The searcher cache entry after delete_index / rebuild_index return:
\* neither handler touches SearchService._searcher_cache.
CacheAfterIndexWrite(cache) == cache

\* DELETE /indexes/{name}: shutil.rmtree of the index directory.
DeleteIndex ==
    \/ IndexNotFound("delete_index")
    \/ /\ index_exists
       /\ index_exists' = FALSE
       /\ index_meta' = NoIndexMeta
       /\ docs' = NoFiles
       /\ chunks' = NoFiles
       /\ chunk_mapping' = <<>>
       /\ leann_index' = NoArtifact
       /\ searcher_cache' = CacheAfterIndexWrite(searcher_cache)
       /\ last' = [op |-> "delete_index", code |-> 200, arg |-> <<>>,
                   ret |-> <<>>]
       /\ UNCHANGED <<ct, ingest, rebuild, builds, leann_available>>

\* sorted(chunks_path.glob("*.json")) of rebuild_index
EnumerateChunks(chs) == SortedChunkFiles(DOMAIN chs)

\* The mapping and the add_text stream built by the loop over chunk_files.
BuildMapping(chs, chunk_files) ==
    [i \in 1 .. Len(chunk_files) |-> chunk_files[i]]
BuildTexts(chs, chunk_files) ==
    [i \in 1 .. Len(chunk_files) |-> chs[chunk_files[i]].content]

\* Whether DocumentService.rebuild_index reaches build_index and
\* _save_chunk_mapping: not when there is no chunk file (`return 0`), nor when
\* leann cannot be imported (`return len(chunk_files)`).
RebuildWrites(chunk_files, available) == chunk_files # <<>> /\ available

\* POST /indexes/{name}/rebuild
RebuildIndex(choices) ==
    \/ IndexNotFound("rebuild_index")
    \/ /\ index_exists
       /\ \E settings \in Optional(choices) :
            LET chunk_files == EnumerateChunks(chunks)
                writes == RebuildWrites(chunk_files, leann_available)
                chunk_count == Len(chunk_files)
                meta1 == IF settings.given
                         THEN [index_meta EXCEPT
                                 !.chunk_size = settings.value.chunk_size,
                                 !.chunk_overlap = settings.value.chunk_overlap]
                         ELSE index_meta
            IN /\ leann_index' =
                    IF writes
                    THEN [exists |-> TRUE, texts |-> BuildTexts(chunks, chunk_files)]
                    ELSE leann_index
               /\ chunk_mapping' =
                    IF writes THEN BuildMapping(chunks, chunk_files)
                    ELSE chunk_mapping
               /\ index_meta' = [meta1 EXCEPT !.updated_at = TRUE,
                                              !.chunk_count = chunk_count]
               /\ searcher_cache' = CacheAfterIndexWrite(searcher_cache)
               /\ last' = [op |-> "rebuild_index", code |-> 200,
                           arg |-> <<>>,
                           ret |-> chunk_count]
       /\ UNCHANGED <<ct, ingest, rebuild, builds, index_exists, docs, chunks,
                      leann_available>>

(***************************************************************************)
(* SearchService: the searcher cache                                       *)
(***************************************************************************)

\* SearchService._get_searcher: [found, texts, cache'] - the searcher handed
\* to the search (the artifact contents it holds) and the cache afterwards.
GetSearcher(cache, artifact, available) ==
    IF cache.cached
    THEN [texts |-> cache.texts, cache |-> cache, found |-> TRUE]
    ELSE IF ~artifact.exists
    THEN [texts |-> <<>>, cache |-> cache, found |-> FALSE]
    ELSE IF available
    THEN [texts |-> artifact.texts, cache |-> [texts |-> artifact.texts, cached |-> TRUE],
          found |-> TRUE]
    ELSE [texts |-> <<>>, cache |-> cache, found |-> FALSE]

\* `if metadata_filters:` - None and {} apply no filter.
FilterApplies(metadata_filters) ==
    metadata_filters.given /\ metadata_filters.value # <<>>

\* What searcher.search hands back per hit: an (index, score) pair (a tuple,
\* or a dict with these entries), a bare number, or an item of another shape.
AnnPair(idx, score) == [idx |-> idx, score |-> score, kind |-> "pair"]
AnnNumber(score) == [idx |-> 0, score |-> score, kind |-> "number"]
AnnOther == [idx |-> 0, score |-> 0, kind |-> "other"]

\* The answer of searcher.search: a list of items, or another iterable.
AnnList(items) == [items |-> items, list |-> TRUE]
AnnIterable(items) == [items |-> items, list |-> FALSE]

\* A variant that lets every score pass.
NeverBelowMinScore(score, min_score) == FALSE

\* `if score < min_score`: the hit is below the requested minimum.
BelowMinScore(score, min_score) == score < min_score

\* The SearchResult built from a chunk file and a score.
ResultOf(chs, chunk_id, score) ==
    [chunk_id |-> chunk_id,
     metadata |-> chs[chunk_id].metadata,
     document_id |-> chs[chunk_id].document_id,
     content |-> chs[chunk_id].content,
     position |-> chs[chunk_id].position,
     score |-> score]

\* The loop `for item in leann_results` from the k-th item on:
\* [results, raised]; raised when _matches_filter raised inside the try.
RECURSIVE AnnLoop(_, _, _, _, _, _, _, _)
AnnLoop(items, k, acc, mapping, chs, metadata_filters, top_k, min_score) ==
    IF k > Len(items) \/ Len(acc) >= top_k
    THEN [results |-> acc, raised |-> FALSE]
    ELSE LET item == items[k]
             in_range == 0 <= item.idx /\ item.idx < Len(mapping)
             chunk_id == mapping[item.idx + 1]
             skip == AnnLoop(items, k + 1, acc, mapping, chs,
                             metadata_filters, top_k, min_score)
         IN IF item.kind # "pair" THEN skip
            ELSE IF BelowMinScore(item.score, min_score) THEN skip
            ELSE IF ~in_range THEN skip
            ELSE IF chunk_id \notin DOMAIN chs THEN skip
            ELSE LET r == IF FilterApplies(metadata_filters)
                          THEN MatchesFilter(chs[chunk_id].metadata,
                                             metadata_filters.value)
                          ELSE "true"
                 IN IF r = "raise" THEN [results |-> acc, raised |-> TRUE]
                    ELSE IF r = "false" THEN skip
                    ELSE AnnLoop(items, k + 1,
                                 Append(acc, ResultOf(chs, chunk_id, item.score)),
                                 mapping, chs, metadata_filters, top_k, min_score)

\* `score = float(item) if isinstance(item, (int, float)) else 1.0`
IterScore(item) == IF item.kind = "number" THEN item.score ELSE 1

\* The loop `for idx, item in enumerate(leann_results)` over an answer that
\* is no list, from the k-th item on: the position is taken as the ordinal.
RECURSIVE IterLoop(_, _, _, _, _, _, _, _)
IterLoop(items, k, acc, mapping, chs, metadata_filters, top_k, min_score) ==
    IF k > Len(items) \/ Len(acc) >= top_k
    THEN [results |-> acc, raised |-> FALSE]
    ELSE IF k - 1 >= Len(mapping) THEN [results |-> acc, raised |-> FALSE]
    ELSE LET score == IterScore(items[k])
             chunk_id == mapping[k]
             skip == IterLoop(items, k + 1, acc, mapping, chs,
                              metadata_filters, top_k, min_score)
         IN IF BelowMinScore(score, min_score) THEN skip
            ELSE IF chunk_id \notin DOMAIN chs THEN skip
            ELSE LET r == IF FilterApplies(metadata_filters)
                          THEN MatchesFilter(chs[chunk_id].metadata,
                                             metadata_filters.value)
                          ELSE "true"
                 IN IF r = "raise" THEN [results |-> acc, raised |-> TRUE]
                    ELSE IF r = "false" THEN skip
                    ELSE IterLoop(items, k + 1,
                                  Append(acc, ResultOf(chs, chunk_id, score)),
                                  mapping, chs, metadata_filters, top_k, min_score)

\* _load_all_chunks: the chunk files in sorted order.
LoadAllChunks(chs) == SortedChunkFiles(DOMAIN chs)

\* _apply_metadata_filter on the loaded list from the k-th chunk on:
\* [chunks, raised].
RECURSIVE ApplyMetadataFilter(_, _, _, _, _)
ApplyMetadataFilter(chs, loaded, metadata_filters, k, acc) ==
    IF ~FilterApplies(metadata_filters) THEN [chunks |-> loaded, raised |-> FALSE]
    ELSE IF k > Len(loaded) THEN [chunks |-> acc, raised |-> FALSE]
    ELSE LET r == MatchesFilter(chs[loaded[k]].metadata, metadata_filters.value)
         IN IF r = "raise" THEN [chunks |-> acc, raised |-> TRUE]
            ELSE ApplyMetadataFilter(chs, loaded, metadata_filters, k + 1,
                                     IF r = "true" THEN Append(acc, loaded[k])
                                     ELSE acc)

\* similarities.argsort()[::-1]: the orders of 1 .. n by descending
\* similarity (the order among equal similarities is the sort's).
DescendingOrders(similarities) ==
    LET n == Len(similarities)
    IN {order \in [1 .. n -> 1 .. n] :
           /\ \A i, j \in 1 .. n : i # j => order[i] # order[j]
           /\ \A i, j \in 1 .. n :
                 i < j => similarities[order[i]] >= similarities[order[j]]}

\* The loop of _brute_force_search over sorted_indices[:top_k] from the k-th
\* on, which stops at the first score below min_score.
RECURSIVE BruteForceLoop(_, _, _, _, _, _, _, _)
BruteForceLoop(chs, filtered, similarities, order, k, acc, top_k, min_score) ==
    IF k > Len(order) \/ k > top_k THEN acc
    ELSE IF BelowMinScore(similarities[order[k]], min_score) THEN acc
    ELSE BruteForceLoop(chs, filtered, similarities, order, k + 1,
                        Append(acc, ResultOf(chs, filtered[order[k]],
                                             similarities[order[k]])),
                        top_k, min_score)

\* The response of a search whose filter evaluation raised: HTTP 500.
SearchFailed(op, arg) ==
    /\ last' = [op |-> op, code |-> 500, arg |-> arg, ret |-> <<>>]

\* searcher.search(query, top_k=fetch_k): the first fetch_k items of the
\* searcher's ranking, as a list or as another iterable.
AnnFetch(ranking, fetch_k) ==
    [items |-> SubSeq(ranking.items, 1,
                      IF fetch_k < Len(ranking.items)
                      THEN fetch_k ELSE Len(ranking.items)),
     list |-> ranking.list]

\* `fetch_k = top_k * 2 if metadata_filters else top_k`
FetchCount(top_k, metadata_filters) ==
    IF FilterApplies(metadata_filters) THEN top_k * 2 ELSE top_k

\* The ways SearchService.search ends once the searcher is looked up, its
\* answer processed (hits) and the chunk files filtered for brute force
\* (filtered): the hits if there are any, else what _brute_force_search
\* returns - nothing without an embedding model or without chunks, the
\* exception of a raising filter (code 500), else the chunks by descending
\* similarity.
SearchEnds(got, queried, ann, hits, filtered, chs, top_k, min_score, encoder, scores) ==
    LET end(code, answered, results) ==
            [results |-> results,
             code |-> code,
             cache |-> got.cache,
             ann |-> ann,
             answered |-> answered,
             path |-> IF queried THEN "ann" ELSE "fallback",
             searcher |-> got.texts]
    IN IF queried /\ ~hits.raised /\ hits.results # <<>>
       THEN {end(200, "ann", hits.results)}
       ELSE IF ~encoder \/ (~filtered.raised /\ filtered.chunks = <<>>)
       THEN {end(200, "brute_force", <<>>)}
       ELSE IF filtered.raised THEN {end(500, "brute_force", <<>>)}
       ELSE UNION {{end(200, "brute_force",
                        BruteForceLoop(chs, filtered.chunks, similarities,
                                       order, 1, <<>>, top_k, min_score)) :
                      order \in DescendingOrders(similarities)} :
                   similarities \in [1 .. Len(filtered.chunks) -> scores]}

\* SearchService.search: the ways the call may end, given the ranking the
\* searcher holds for the query, whether sentence_transformers can be loaded
\* (encoder) and the similarities the embedding model may give (scores).
SearchOutcomes(cache, artifact, available, mapping, chs, top_k, metadata_filters, min_score, ranking, encoder, scores) ==
    UNION {UNION {UNION {UNION {
        SearchEnds(got, queried, ann, hits, filtered, chs, top_k, min_score,
                   encoder, scores) :
        filtered \in {ApplyMetadataFilter(chs, LoadAllChunks(chs),
                                          metadata_filters, 1, <<>>)}} :
        hits \in {IF ~queried
                  THEN [results |-> <<>>, raised |-> FALSE]
                  ELSE IF ann.list
                  THEN AnnLoop(ann.items, 1, <<>>, mapping, chs,
                               metadata_filters, top_k, min_score)
                  ELSE IterLoop(ann.items, 1, <<>>, mapping, chs,
                                metadata_filters, top_k, min_score)}} :
        queried \in {got.found /\ mapping # <<>>},
        ann \in {AnnFetch(ranking, FetchCount(top_k, metadata_filters))}} :
        got \in {GetSearcher(cache, artifact, available)}}

\* POST /indexes/{name}/search.  `rankings` are the rankings the searcher may
\* hold, `scores` the similarities the embedding model may give, `encoders`
\* whether sentence_transformers can be loaded.  The answer records whether
\* the searcher was queried (path) and which branch produced the results.
SemanticSearch(top_ks, filter_choices, min_scores, rankings, scores, encoders) ==
    \/ IndexNotFound("search")
    \/ /\ index_exists
       /\ \E top_k \in top_ks, metadata_filters \in filter_choices,
             min_score \in min_scores, ranking \in rankings,
             encoder \in encoders :
          \E out \in SearchOutcomes(searcher_cache, leann_index,
                                     leann_available, chunk_mapping, chunks,
                                     top_k, metadata_filters, min_score,
                                     ranking, encoder, scores) :
          \E arg \in {[metadata_filters |-> metadata_filters, min_score |-> min_score,
                       top_k |-> top_k, ann |-> out.ann,
                       encoder |-> encoder]} :
             /\ searcher_cache' = out.cache
             /\ IF out.code = 500 THEN SearchFailed("search", arg)
                ELSE last' = [op |-> "search", code |-> 200, arg |-> arg,
                              ret |-> [results |-> out.results,
                                       answered |-> out.answered,
                                       path |-> out.path,
                                       searcher |-> out.searcher]]
       /\ UNCHANGED <<ct, ingest, rebuild, builds, index_exists, index_meta,
                      docs, chunks, chunk_mapping, leann_index,
                      leann_available>>

(***************************************************************************)
(* SearchService.grep_search                                               *)
(***************************************************************************)

\* A variant that compares characters as they are.
KeepCase(c) == c

\* re.IGNORECASE on the letters of the requests: both cases compare equal.
FoldCase(c) ==
    IF c = "A" THEN "a"
    ELSE IF c = "B" THEN "b"
    ELSE c

\* The pattern re.escape(query) matches at offset p of content: every
\* character of the query stands for itself.
MatchesAt(content, query, p) ==
    /\ p + Len(query) <= Len(content)
    /\ \A i \in 1 .. Len(query) : FoldCase(content[p + i]) = FoldCase(query[i])

\* list(pattern.finditer(content)) from offset p on, as [m.start(), m.end()]:
\* the scan resumes at the end of each match.
RECURSIVE FindIter(_, _, _)
FindIter(content, query, p) ==
    IF p + Len(query) > Len(content) THEN <<>>
    ELSE IF MatchesAt(content, query, p)
    THEN <<<<p, p + Len(query)>>>> \o FindIter(content, query, p + Len(query))
    ELSE FindIter(content, query, p + 1)

\* The GrepSearchResult built from a chunk file and its matches.
GrepResultOf(chs, chunk_id, match_positions) ==
    [chunk_id |-> chunk_id,
     metadata |-> chs[chunk_id].metadata,
     document_id |-> chs[chunk_id].document_id,
     content |-> chs[chunk_id].content,
     match_positions |-> match_positions]

\* The loop `for chunk in chunks` of grep_search from the k-th chunk on.
RECURSIVE GrepLoop(_, _, _, _, _, _)
GrepLoop(chs, filtered, query, k, acc, top_k) ==
    IF k > Len(filtered) \/ Len(acc) >= top_k THEN acc
    ELSE LET matches == FindIter(chs[filtered[k]].content, query, 0)
         IN GrepLoop(chs, filtered, query, k + 1,
                     IF matches # <<>>
                     THEN Append(acc, GrepResultOf(chs, filtered[k], matches))
                     ELSE acc,
                     top_k)

\* POST /indexes/{name}/search/grep
GrepSearch(top_ks, filter_choices, queries) ==
    \/ IndexNotFound("grep_search")
    \/ /\ index_exists
       /\ \E top_k \in top_ks, metadata_filters \in filter_choices,
             query \in queries :
          \E arg \in {[metadata_filters |-> metadata_filters, top_k |-> top_k,
                       query |-> query]} :
          \E filtered \in {ApplyMetadataFilter(chunks, LoadAllChunks(chunks),
                                               metadata_filters, 1, <<>>)} :
             IF filtered.raised THEN SearchFailed("grep_search", arg)
             ELSE last' = [op |-> "grep_search", code |-> 200, arg |-> arg,
                           ret |-> GrepLoop(chunks, filtered.chunks, query, 1,
                                            <<>>, top_k)]
       /\ UNCHANGED <<ct, ingest, rebuild, builds, index_exists, index_meta,
                      docs, chunks, chunk_mapping, leann_index, searcher_cache,
                      leann_available>>

(***************************************************************************)
(* SearchService.hybrid_search                                             *)
(***************************************************************************)

\* semantic_weight and keyword_weight are floats in [0, 1]; the model holds
\* them in units of 1 / WeightScale.
WeightScale == 10

\* score_map after `for result in semantic_results` from the k-th result on:
\* the entries in insertion order; a chunk_id met again keeps its place and
\* takes the later result.
RECURSIVE SemanticEntries(_, _, _)
SemanticEntries(semantic_results, k, acc) ==
    IF k > Len(semantic_results) THEN acc
    ELSE LET result == semantic_results[k]
             entry == [chunk_id |-> result.chunk_id,
                       metadata |-> result.metadata,
                       document_id |-> result.document_id,
                       content |-> result.content,
                       position |-> result.position,
                       semantic_score |-> result.score,
                       keyword_score |-> 0]
             seen == {i \in 1 .. Len(acc) : acc[i].chunk_id = result.chunk_id}
         IN SemanticEntries(semantic_results, k + 1,
                            IF seen = {} THEN Append(acc, entry)
                            ELSE [i \in 1 .. Len(acc) |->
                                     IF i \in seen THEN entry ELSE acc[i]])

\* A variant that ranks the grep hits against one more than their number.
GrepCountPlusOne(grep_results) == Len(grep_results) + 1

\* `max_grep_score = len(grep_results) if grep_results else 1`
MaxGrepScore(grep_results) ==
    IF grep_results # <<>> THEN Len(grep_results) ELSE 1

\* score_map after `for i, result in enumerate(grep_results)` from the k-th
\* result on.  grep_score = (max_grep_score - i) / max_grep_score is held as
\* its numerator over max_grep_score.
RECURSIVE GrepEntries(_, _, _)
GrepEntries(grep_results, k, acc) ==
    IF k > Len(grep_results) THEN acc
    ELSE LET result == grep_results[k]
             grep_score == MaxGrepScore(grep_results) - (k - 1)
             entry == [chunk_id |-> result.chunk_id,
                       metadata |-> result.metadata,
                       document_id |-> result.document_id,
                       content |-> result.content,
                       position |-> 0,
                       semantic_score |-> 0,
                       keyword_score |-> grep_score]
             seen == {i \in 1 .. Len(acc) : acc[i].chunk_id = result.chunk_id}
         IN GrepEntries(grep_results, k + 1,
                        IF seen = {} THEN Append(acc, entry)
                        ELSE [i \in 1 .. Len(acc) |->
                                 IF i \in seen
                                 THEN [acc[i] EXCEPT !.keyword_score = grep_score]
                                 ELSE acc[i]])

\* combined_score = semantic_score * semantic_weight
\*                  + keyword_score * keyword_weight,
\* as its numerator over WeightScale * max_grep_score.
CombinedScore(data, semantic_weight, keyword_weight, max_grep_score) ==
    data.semantic_score * semantic_weight * max_grep_score
        + data.keyword_score * keyword_weight

\* sorted(..., key=combined_score, reverse=True) from the k-th entry on: a
\* stable sort, entries of equal score keep their order.
RECURSIVE SortedByScore(_, _, _)
SortedByScore(entries, k, acc) ==
    IF k > Len(entries) THEN acc
    ELSE LET before == {i \in 1 .. Len(acc) :
                           acc[i].combined_score >= entries[k].combined_score}
             n == Cardinality(before)
         IN SortedByScore(entries, k + 1,
                          SubSeq(acc, 1, n) \o <<entries[k]>>
                              \o SubSeq(acc, n + 1, Len(acc)))

\* The results of hybrid_search from the results of its two searches.
HybridResults(semantic_results, grep_results, top_k, semantic_weight, keyword_weight) ==
    LET max_grep_score == MaxGrepScore(grep_results)
        score_map == GrepEntries(grep_results, 1,
                                 SemanticEntries(semantic_results, 1, <<>>))
        scored == [i \in 1 .. Len(score_map) |->
                      [chunk_id |-> score_map[i].chunk_id,
                       metadata |-> score_map[i].metadata,
                       document_id |-> score_map[i].document_id,
                       content |-> score_map[i].content,
                       position |-> score_map[i].position,
                       combined_score |->
                           CombinedScore(score_map[i], semantic_weight,
                                         keyword_weight, max_grep_score)]]
        sorted_results == SortedByScore(scored, 1, <<>>)
    IN [i \in 1 .. (IF top_k < Len(sorted_results)
                    THEN top_k ELSE Len(sorted_results)) |->
           [chunk_id |-> sorted_results[i].chunk_id,
            metadata |-> sorted_results[i].metadata,
            document_id |-> sorted_results[i].document_id,
            content |-> sorted_results[i].content,
            position |-> sorted_results[i].position,
            score |-> [num |-> sorted_results[i].combined_score,
                       den |-> WeightScale * max_grep_score]]]

\* POST /indexes/{name}/search/hybrid.  The answer records the results of
\* the two inner searches next to the combined results.
HybridSearch(top_ks, filter_choices, weights, queries, rankings, scores, encoders) ==
    \/ IndexNotFound("hybrid_search")
    \/ /\ index_exists
       /\ \E top_k \in top_ks, metadata_filters \in filter_choices,
             weight \in weights, query \in queries, ranking \in rankings,
             encoder \in encoders :
          \E arg \in {[metadata_filters |-> metadata_filters, top_k |-> top_k,
                       ranking |-> ranking,
                       encoder |-> encoder,
                       query |-> query,
                       semantic_weight |-> weight.semantic_weight, keyword_weight |-> weight.keyword_weight]} :
          \E out \in SearchOutcomes(searcher_cache, leann_index,
                                     leann_available, chunk_mapping, chunks,
                                     top_k * 3, metadata_filters, 0,
                                     ranking, encoder, scores) :
          \E filtered \in {ApplyMetadataFilter(chunks, LoadAllChunks(chunks),
                                               metadata_filters, 1, <<>>)} :
             /\ searcher_cache' = out.cache
             /\ IF out.code = 500 \/ filtered.raised
                THEN SearchFailed("hybrid_search", arg)
                ELSE \E grep_results \in {GrepLoop(chunks, filtered.chunks,
                                                   query, 1, <<>>, top_k * 3)} :
                     last' = [op |-> "hybrid_search", code |-> 200,
                              arg |-> arg,
                              ret |-> [results |->
                                         HybridResults(out.results,
                                                       grep_results, top_k,
                                                       weight.semantic_weight,
                                                       weight.keyword_weight),
                                       semantic |-> out.results,
                                       grep |-> grep_results]]
       /\ UNCHANGED <<ct, ingest, rebuild, builds, index_exists, index_meta,
                      docs, chunks, chunk_mapping, leann_index,
                      leann_available>>

(***************************************************************************)
(* add_documents stepped one file access at a time, per worker process     *)
(***************************************************************************)

\* The uvicorn worker processes that serve requests side by side on one
\* index directory (settings.workers processes; two are stepped here).
Workers == {1, 2}

\* No add_documents call in progress in a worker.
NoIngest ==
    [i |-> 0, chunk_size |-> 0, k |-> 0, chunk_overlap |-> 0, pc |-> "idle",
     update_if_exists |-> FALSE, pieces |-> <<>>, existing |-> FALSE,
     results |-> <<>>, total_chunks |-> 0, total_chars |-> 0,
     documents |-> <<>>, current_chunks |-> 0, current_chars |-> 0]

\* No stepped rebuild_index call in progress.
NoRebuild ==
    [chunk_mapping |-> <<>>, pc |-> "idle", metadata |-> NoIndexMeta, j |-> 0,
     chunk_count |-> 0, texts |-> <<>>, chunk_files |-> <<>>]

\* The frame once the loop body is through with documents[k]: the result is
\* appended and the loop moves on.
IngestNextDocument(f, result) ==
    [f EXCEPT !.pc = "load", !.k = @ + 1, !.pieces = <<>>, !.i = 0,
              !.results = Append(@, result)]

\* The frame once every chunk file of documents[k] is written: the totals
\* grow and the "added"/"updated" result is appended.
IngestDocumentDone(f) ==
    LET doc == f.documents[f.k]
    IN IngestNextDocument(
           [f EXCEPT !.total_chunks = @ + Len(f.pieces),
                     !.total_chars = @ + Len(doc.content)],
           [chunk_count |-> Len(f.pieces), id |-> doc.id,
            status |-> IF f.existing THEN "updated" ELSE "added",
            error |-> ""])

\* Entry of add_documents in worker w: the route found the index, the
\* settings are read and the accumulators start empty.
IngestBegin(w, inputs, opt_sizes, opt_overlaps) ==
    /\ index_exists
    /\ ingest[w].pc = "idle"
    /\ \E documents \in Batches(inputs), update_if_exists \in BOOLEAN,
          opt_size \in opt_sizes, opt_overlap \in opt_overlaps :
          ingest' = [ingest EXCEPT ![w] =
              [NoIngest EXCEPT
                 !.pc = "load", !.documents = documents, !.k = 1,
                 !.update_if_exists = update_if_exists,
                 !.chunk_size = IF opt_size # 0 THEN opt_size
                                ELSE index_meta.chunk_size,
                 !.chunk_overlap = IF opt_overlap # 0 THEN opt_overlap
                                   ELSE index_meta.chunk_overlap]]
    /\ UNCHANGED <<ct, index_exists, index_meta, docs, chunks, chunk_mapping,
                   leann_index, searcher_cache, leann_available, rebuild,
                   builds, last>>

\* The head of the loop body: `existing = self._load_document(...)`, the
\* refusal of an existing id, and `_chunk_text`; past the last input the
\* call goes on to the counters.
IngestLoad(w) ==
    LET f == ingest[w]
    IN /\ f.pc = "load"
       /\ IF f.k > Len(f.documents)
          THEN ingest' = [ingest EXCEPT ![w].pc = "read_meta"]
          ELSE LET doc == f.documents[f.k]
                   cut == ChunkText(doc.content, f.chunk_size, f.chunk_overlap)
               IN IF RefusesExisting(docs, doc.id, f.update_if_exists)
                  THEN ingest' = [ingest EXCEPT ![w] =
                           IngestNextDocument(f,
                               [chunk_count |-> 0, id |-> doc.id,
                                status |-> "failed",
                                error |-> "Document already exists"])]
                  ELSE /\ cut.done
                       /\ ingest' = [ingest EXCEPT ![w] =
                              [f EXCEPT !.pc = "save_document",
                                        !.existing = doc.id \in DOMAIN docs,
                                        !.pieces = cut.chunks]]
       /\ UNCHANGED <<ct, index_exists, index_meta, docs, chunks,
                      chunk_mapping, leann_index, searcher_cache,
                      leann_available, rebuild, builds, last>>

\* `self._save_document(index_name, doc_id, doc_data)`
IngestSaveDocument(w) ==
    LET f == ingest[w]
        doc == f.documents[f.k]
    IN /\ f.pc = "save_document"
       /\ docs' = WithKey(docs, doc.id,
                          [metadata |-> doc.metadata, chunk_count |-> Len(f.pieces),
                           content |-> doc.content])
       /\ ingest' = [ingest EXCEPT ![w] =
              IF f.pieces = <<>> THEN IngestDocumentDone(f)
              ELSE [f EXCEPT !.pc = "save_chunk", !.i = 0]]
       /\ UNCHANGED <<ct, index_exists, index_meta, chunks, chunk_mapping,
                      leann_index, searcher_cache, leann_available, rebuild,
                      builds, last>>

\* One iteration of `for i, chunk_content in enumerate(chunks)`: one chunk
\* file is written.
IngestSaveChunk(w) ==
    LET f == ingest[w]
        doc == f.documents[f.k]
    IN /\ f.pc = "save_chunk"
       /\ chunks' = WithKey(chunks, ChunkIdOf(doc.id, f.i),
                            [metadata |-> doc.metadata,
                             document_id |-> doc.id,
                             content |-> f.pieces[f.i + 1], position |-> f.i])
       /\ ingest' = [ingest EXCEPT ![w] =
              IF f.i + 1 = Len(f.pieces) THEN IngestDocumentDone(f)
              ELSE [f EXCEPT !.i = @ + 1]]
       /\ UNCHANGED <<ct, index_exists, index_meta, docs, chunk_mapping,
                      leann_index, searcher_cache, leann_available, rebuild,
                      builds, last>>

\* After the loop: `index_meta = json.load(f)` and the two counters read
\* from it when metadata.json exists; the call returns at once when not.
IngestReadMeta(w) ==
    LET f == ingest[w]
    IN /\ f.pc = "read_meta"
       /\ IF index_exists
          THEN /\ ingest' = [ingest EXCEPT ![w] =
                      [f EXCEPT !.pc = "update_metadata",
                                !.current_chunks = index_meta.chunk_count,
                                !.current_chars = index_meta.total_characters]]
               /\ UNCHANGED last
          ELSE /\ ingest' = [ingest EXCEPT ![w] = NoIngest]
               /\ last' = [op |-> "add_documents", code |-> 200,
                           arg |-> [worker |-> w], ret |-> f.results]
       /\ UNCHANGED <<ct, index_exists, index_meta, docs, chunks,
                      chunk_mapping, leann_index, searcher_cache,
                      leann_available, rebuild, builds>>

\* `index_service.update_metadata(...)` with the sums computed from the
\* counters read before, and the return of the call.
IngestUpdateMetadata(w) ==
    LET f == ingest[w]
    IN /\ f.pc = "update_metadata"
       /\ f.current_chunks + f.total_chunks <= MaxChunkCount
       /\ f.current_chars + f.total_chars <= MaxTotalChars
       /\ index_meta' = UpdateMetadata(index_meta,
                                       f.current_chunks + f.total_chunks,
                                       f.current_chars + f.total_chars)
       /\ ingest' = [ingest EXCEPT ![w] = NoIngest]
       /\ last' = [op |-> "add_documents", code |-> 200,
                   arg |-> [ids |-> [k \in 1 .. Len(f.documents) |->
                                        f.documents[k].id],
                            update_if_exists |-> f.update_if_exists,
                            total_chunks |-> f.total_chunks,
                            total_chars |-> f.total_chars,
                            worker |-> w],
                   ret |-> f.results]
       /\ UNCHANGED <<ct, index_exists, docs, chunks, chunk_mapping,
                      leann_index, searcher_cache, leann_available, rebuild,
                      builds>>

\* The worker process is killed while its add_documents call is under way:
\* the files written so far stay, nothing else is written.
IngestInterrupt(w) ==
    /\ ingest[w].pc # "idle"
    /\ ingest' = [ingest EXCEPT ![w] = NoIngest]
    /\ last' = [op |-> "add_documents", code |-> 0,
                arg |-> [worker |-> w], ret |-> "interrupted"]
    /\ UNCHANGED <<ct, index_exists, index_meta, docs, chunks, chunk_mapping,
                   leann_index, searcher_cache, leann_available, rebuild,
                   builds>>

(***************************************************************************)
(* rebuild_index stepped one file access at a time                         *)
(***************************************************************************)

\* Entry of IndexService.rebuild_index: the route found the index,
\* metadata.json is loaded, and saved at once when settings came along.
RebuildBegin(choices) ==
    /\ index_exists
    /\ rebuild.pc = "idle"
    /\ Cardinality(builds) < MaxBuilds
    /\ \E settings \in Optional(choices) :
          LET meta1 == IF settings.given
                       THEN [index_meta EXCEPT
                               !.chunk_size = settings.value.chunk_size,
                               !.chunk_overlap = settings.value.chunk_overlap]
                       ELSE index_meta
          IN /\ index_meta' = meta1
             /\ rebuild' = [NoRebuild EXCEPT !.pc = "enumerate",
                                             !.metadata = meta1]
    /\ UNCHANGED <<ct, index_exists, docs, chunks, chunk_mapping, leann_index,
                   searcher_cache, leann_available, ingest, builds, last>>

\* `chunk_files = sorted(chunks_path.glob("*.json"))` and the two early
\* returns of DocumentService.rebuild_index.
RebuildEnumerate ==
    /\ rebuild.pc = "enumerate"
    /\ \E chunk_files \in {EnumerateChunks(chunks)} :
          rebuild' = [rebuild EXCEPT
              !.pc = IF RebuildWrites(chunk_files, leann_available)
                     THEN "read" ELSE "finish",
              !.chunk_files = chunk_files,
              !.j = 1,
              !.chunk_count = Len(chunk_files)]
    /\ UNCHANGED <<ct, index_exists, index_meta, docs, chunks, chunk_mapping,
                   leann_index, searcher_cache, leann_available, ingest,
                   builds, last>>

\* One iteration of `for chunk_file in chunk_files`: the file is opened and
\* read now; open() of a file that is gone raises, and the exception leaves
\* the handler as HTTP 500.
RebuildRead ==
    /\ rebuild.pc = "read"
    /\ LET chunk_file == rebuild.chunk_files[rebuild.j]
       IN IF chunk_file \in DOMAIN chunks
          THEN /\ rebuild' = [rebuild EXCEPT
                      !.pc = IF rebuild.j = Len(rebuild.chunk_files)
                             THEN "build" ELSE "read",
                      !.j = @ + 1,
                      !.texts = Append(@, chunks[chunk_file].content),
                      !.chunk_mapping = Append(@, chunk_file)]
               /\ UNCHANGED last
          ELSE /\ rebuild' = NoRebuild
               /\ last' = [op |-> "rebuild_index", code |-> 500,
                           arg |-> [chunk_file |-> chunk_file], ret |-> <<>>]
    /\ UNCHANGED <<ct, index_exists, index_meta, docs, chunks, chunk_mapping,
                   leann_index, searcher_cache, leann_available, ingest,
                   builds>>

\* `builder.build_index(str(leann_path))`: the artifact is replaced.
RebuildBuild ==
    /\ rebuild.pc = "build"
    /\ leann_index' = [exists |-> TRUE, texts |-> rebuild.texts]
    /\ builds' = builds \cup {[chunk_mapping |-> rebuild.chunk_mapping,
                               texts |-> rebuild.texts]}
    /\ rebuild' = [rebuild EXCEPT !.pc = "save_mapping"]
    /\ UNCHANGED <<ct, index_exists, index_meta, docs, chunks, chunk_mapping,
                   searcher_cache, leann_available, ingest, last>>

\* `self._save_chunk_mapping(index_name, chunk_mapping)`
RebuildSaveMapping ==
    /\ rebuild.pc = "save_mapping"
    /\ chunk_mapping' = rebuild.chunk_mapping
    /\ rebuild' = [rebuild EXCEPT !.pc = "finish"]
    /\ UNCHANGED <<ct, index_exists, index_meta, docs, chunks, leann_index,
                   searcher_cache, leann_available, ingest, builds, last>>

\* Back in IndexService.rebuild_index: the metadata loaded at entry gets
\* updated_at and chunk_count and is saved; the route answers.
RebuildFinish ==
    /\ rebuild.pc = "finish"
    /\ index_meta' = [rebuild.metadata EXCEPT
                        !.updated_at = TRUE,
                        !.chunk_count = rebuild.chunk_count]
    /\ rebuild' = NoRebuild
    /\ last' = [op |-> "rebuild_index", code |-> 200,
                arg |-> [chunk_files |-> rebuild.chunk_files],
                ret |-> rebuild.chunk_count]
    /\ UNCHANGED <<ct, index_exists, docs, chunks, chunk_mapping, leann_index,
                   searcher_cache, leann_available, ingest, builds>>

\* The worker process is killed while its rebuild is under way.
RebuildInterrupt ==
    /\ rebuild.pc # "idle"
    /\ rebuild' = NoRebuild
    /\ last' = [op |-> "rebuild_index", code |-> 0, arg |-> <<>>,
                ret |-> "interrupted"]
    /\ UNCHANGED <<ct, index_exists, index_meta, docs, chunks, chunk_mapping,
                   leann_index, searcher_cache, leann_available, ingest,
                   builds>>

(***************************************************************************)
(* Specifications                                                          *)
(***************************************************************************)

NoCall == [op |-> "none", code |-> 0, arg |-> <<>>, ret |-> <<>>]

\* The services after construction: no index, an empty searcher cache.
InitStore ==
    /\ ct = IdleFrame
    /\ ingest = [w \in Workers |-> NoIngest]
    /\ rebuild = NoRebuild
    /\ builds = {}
    /\ index_exists = FALSE
    /\ index_meta = NoIndexMeta
    /\ docs = NoFiles
    /\ chunks = NoFiles
    /\ chunk_mapping = <<>>
    /\ leann_index = NoArtifact
    /\ searcher_cache = NoSearcher
    /\ last = NoCall

\* The document store: every document handler on documents with and without
\* metadata, and rebuilds in a deployment without the leann package.
Init ==
    /\ InitStore
    /\ leann_available = FALSE

StoreInputs == [metadata : {NoMetadata, MetaK}, content : Contents, id : DocIds]

Next ==
    \/ CreateIndex(SettingsChoices)
    \/ RebuildIndex({})
    \/ AddDocuments(StoreInputs, NotGiven, NotGiven)
    \/ UpdateDocument(Contents, {MetaK})
    \/ UpdateMetadataOnly({MetaK})
    \/ DeleteDocument
    \/ BulkDelete({Given(ids) : ids \in IdLists}, {Absent})

Spec == Init /\ [][Next]_vars

\* Rebuilds around content writes, with and without the leann package.
InitIndex ==
    /\ InitStore
    /\ leann_available \in BOOLEAN

IndexInputs == [metadata : {NoMetadata}, content : Contents, id : DocIds]

NextIndex ==
    \/ CreateIndex(SettingsChoices)
    \/ RebuildIndex(SettingsChoices)
    \/ AddDocuments(IndexInputs, NotGiven, NotGiven)
    \/ UpdateDocument(Contents, {})
    \/ DeleteDocument

SpecIndex == InitIndex /\ [][NextIndex]_vars

\* The searcher cache over the life of an index name: create, ingest,
\* rebuild, search, delete.
InitCache ==
    /\ InitStore
    /\ leann_available = TRUE

CacheInputs == [metadata : {NoMetadata}, content : Contents, id : {DocA}]

NextCache ==
    \/ CreateIndex(SettingsChoices)
    \/ DeleteIndex
    \/ RebuildIndex({})
    \/ AddDocuments(CacheInputs, NotGiven, NotGiven)
    \/ SemanticSearch({1}, {Absent}, {0}, {AnnList(<<AnnPair(0, 1)>>)}, {1}, {TRUE})

SpecCache == InitCache /\ [][NextCache]_vars

\* Ingest batches against existing and new ids.
InitAdd ==
    /\ InitStore
    /\ leann_available = FALSE

NextAdd ==
    \/ CreateIndex(SettingsChoices)
    \/ AddDocuments(IndexInputs, NotGiven, NotGiven)
    \/ DeleteDocument

SpecAdd == InitAdd /\ [][NextAdd]_vars

\* Rebuilds of an index whose chunk ids are prefixes of one another.
RebuildInputs == [metadata : {NoMetadata}, content : {TextShort}, id : DocIds]

NextRebuild ==
    \/ CreateIndex(SettingsChoices)
    \/ RebuildIndex({})
    \/ AddDocuments(RebuildInputs, NotGiven, NotGiven)
    \/ DeleteDocument

SpecRebuild == InitIndex /\ [][NextRebuild]_vars

\* Metadata updates of one document, and reads of it.
MetaInputs == [metadata : {NoMetadata, MetaKJ}, content : {TextShort}, id : {DocA}]

NextMeta ==
    \/ CreateIndex(SettingsChoices)
    \/ AddDocuments(MetaInputs, NotGiven, NotGiven)
    \/ UpdateDocument({TextLong}, {MetaEmpty, MetaK2})
    \/ UpdateMetadataOnly({MetaEmpty, MetaK2})
    \/ GetDocument

SpecMeta == InitAdd /\ [][NextMeta]_vars

\* Semantic searches over one document of two chunks, with and without
\* metadata, before and after rebuilds.
SearchInputs == [metadata : {NoMetadata, MetaK}, content : {TextLong}, id : {DocA}]

\* metadata_filters of the searches: none, and {"k": 1}.
SearchFilters == {Absent, Given(<<FilterItem("k", Scalar(JInt(1)))>>)}

\* Hits the searcher may report: ordinals inside and outside the OrdinalMap
\* of two chunks, with scores 0 and 1.
AnnItems == {AnnPair(0, 1), AnnPair(1, 0), AnnPair(2, 1)}

\* Items of an answer that is no list: the score 0, and an item that is no
\* number and counts as the score 1.
IterItems == {AnnNumber(0), AnnOther}

\* Longest ranking of the searcher.
MaxAnn == 2

AnnAnswers ==
    UNION {{AnnList(items) : items \in [1 .. n -> AnnItems]}
              \cup {AnnIterable(items) : items \in [1 .. n -> IterItems]} :
           n \in 0 .. MaxAnn}

NextSearch ==
    \/ CreateIndex(SettingsChoices)
    \/ AddDocuments(SearchInputs, NotGiven, NotGiven)
    \/ RebuildIndex({})
    \/ SemanticSearch({1, 2}, SearchFilters, {0, 1}, AnnAnswers, {0, 1}, {TRUE})

SpecSearch == InitCache /\ [][NextSearch]_vars

\* Keyword searches over two documents of one chunk each, whose contents
\* repeat a letter in both cases.
DocB == <<"b">>
TextEcho == <<"a", "A", "a">>
TextPair == <<"b", "a">>
GrepInputs ==
    [metadata : {NoMetadata, MetaK}, content : {TextEcho, TextPair},
     id : {DocA, DocB}]

\* Queries of the keyword searches: a letter, a repeated letter in two cases,
\* a letter of one content only, and a character that is a regex wildcard.
GrepQueries == {<<"a">>, <<"A", "a">>, <<"B">>, <<".">>}

NextGrep ==
    \/ CreateIndex(SettingsChoices)
    \/ AddDocuments(GrepInputs, NotGiven, NotGiven)
    \/ GrepSearch({1, 2}, SearchFilters, GrepQueries)

SpecGrep == InitAdd /\ [][NextGrep]_vars

\* Hybrid searches over two documents of one chunk each, before and after
\* rebuilds.
HybridInputs == [metadata : {NoMetadata}, content : {TextPair}, id : {DocA, DocB}]

\* (semantic_weight, keyword_weight) of the requests, in tenths: the
\* defaults 0.7 / 0.3, and semantic only.
HybridWeights ==
    {[semantic_weight |-> 7, keyword_weight |-> 3],
     [semantic_weight |-> 10, keyword_weight |-> 0]}

\* Queries of the hybrid searches: one every content holds, one none holds.
HybridQueries == {<<"a">>, <<".">>}

\* Similarities the embedding model may give.
HybridScores == {0, 1}

\* Rankings the searcher may hold: lists of hits on the two ordinals.
HybridRankings ==
    {AnnList(items) :
        items \in UNION {[1 .. n -> {AnnPair(0, 1), AnnPair(1, 0)}] :
                           n \in 0 .. MaxAnn}}

NextHybrid ==
    \/ CreateIndex(SettingsChoices)
    \/ AddDocuments(HybridInputs, NotGiven, NotGiven)
    \/ RebuildIndex({})
    \/ HybridSearch({1, 2}, {Absent}, HybridWeights, HybridQueries,
                    HybridRankings, HybridScores, {TRUE})

SpecHybrid == InitCache /\ [][NextHybrid]_vars

\* Bulk deletions by ids and by filter, over documents with and without the
\* metadata the filter asks for.
BulkInputs == [metadata : {NoMetadata, MetaK, MetaK2}, content : {TextShort}, id : DocIds]

\* document_ids of the bulk deletions: none, the empty list, lists of ids.
BulkIds == {Absent, Given(<<>>)} \cup {Given(ids) : ids \in IdLists}

\* metadata_filter of the bulk deletions: none, {"k": 1}, {"k": {"<": 2}}.
BulkFilters ==
    {Absent,
     Given(<<FilterItem("k", Scalar(JInt(1)))>>),
     Given(<<FilterItem("k", Ops(<<OpItem("<", JInt(2))>>))>>)}

NextBulk ==
    \/ CreateIndex(SettingsChoices)
    \/ AddDocuments(BulkInputs, NotGiven, NotGiven)
    \/ BulkDelete(BulkIds, BulkFilters)

SpecBulk == InitAdd /\ [][NextBulk]_vars

\* One worker ingesting batches one file write at a time, with the process
\* killed at any point of the call.
IngestInputs == [metadata : {NoMetadata}, content : Contents, id : {DocA}]

NextIngest ==
    \/ CreateIndex(SettingsChoices)
    \/ IngestBegin(1, IngestInputs, NotGiven, NotGiven)
    \/ IngestLoad(1)
    \/ IngestSaveDocument(1)
    \/ IngestSaveChunk(1)
    \/ IngestReadMeta(1)
    \/ IngestUpdateMetadata(1)
    \/ IngestInterrupt(1)

SpecIngest == InitAdd /\ [][NextIngest]_vars

\* Deletions and reads of documents that are present and absent.
NextDelete ==
    \/ CreateIndex(SettingsChoices)
    \/ AddDocuments(IndexInputs, NotGiven, NotGiven)
    \/ DeleteDocument
    \/ GetDocument

SpecDelete == InitAdd /\ [][NextDelete]_vars

\* A rebuild stepped one file access at a time while another worker adds
\* and deletes documents.
PassInputs == [metadata : {NoMetadata}, content : {TextShort}, id : {DocA, DocB}]

NextPass ==
    \/ CreateIndex(SettingsChoices)
    \/ AddDocuments(PassInputs, NotGiven, NotGiven)
    \/ DeleteDocument
    \/ RebuildBegin({})
    \/ RebuildEnumerate
    \/ RebuildRead
    \/ RebuildBuild
    \/ RebuildSaveMapping
    \/ RebuildFinish

SpecPass == InitCache /\ [][NextPass]_vars

\* Reads of a stored document of up to MaxReadLen characters: the index was
\* created with chunk_size 2 and chunk_overlap 1 and document a was added,
\* which makes one chunk per character but the last.
ReadSettings == [chunk_size |-> 2, chunk_overlap |-> 1]
ReadTexts == {[i \in 1 .. n |-> "x"] : n \in 1 .. MaxReadLen}

InitRead ==
    /\ ct = IdleFrame
    /\ ingest = [w \in Workers |-> NoIngest]
    /\ rebuild = NoRebuild
    /\ builds = {}
    /\ index_exists = TRUE
    /\ \E text \in ReadTexts :
          \E pieces \in {ChunkText(text, ReadSettings.chunk_size,
                                   ReadSettings.chunk_overlap).chunks} :
             /\ index_meta = UpdateMetadata(NewIndexMeta(ReadSettings),
                                            Len(pieces), Len(text))
             /\ docs = WithKey(NoFiles, DocA,
                               [metadata |-> NoMetadata, chunk_count |-> Len(pieces),
                                content |-> text])
             /\ chunks = WriteChunks(NoFiles, DocA, pieces, NoMetadata, 0)
    /\ chunk_mapping = <<>>
    /\ leann_index = NoArtifact
    /\ searcher_cache = NoSearcher
    /\ leann_available = FALSE
    /\ last = NoCall

NextRead ==
    \/ DeleteIndex
    \/ GetDocument
    \/ UpdateMetadataOnly({MetaK, MetaK2})
    \/ DeleteDocument

SpecRead == InitRead /\ [][NextRead]_vars

\* Semantic searches of an index with and without an artifact, with and
\* without the leann package and an embedding model, over chunks with and
\* without metadata.
FallbackInputs ==
    [metadata : {NoMetadata, MetaK}, content : {TextShort}, id : {DocA}]
FallbackAnswers == {AnnList(<<>>), AnnList(<<AnnPair(0, 1)>>)}

NextFallback ==
    \/ CreateIndex(SettingsChoices)
    \/ AddDocuments(FallbackInputs, NotGiven, NotGiven)
    \/ RebuildIndex({})
    \/ SemanticSearch({1}, SearchFilters, {0}, FallbackAnswers, {1}, BOOLEAN)

SpecFallback == InitIndex /\ [][NextFallback]_vars

\* The limits the IndexSettings schema puts on the chunking fields.
ChunkSizeGe == 64
ChunkSizeLe == 4096
ChunkOverlapGe == 0
ChunkOverlapLe == 512

\* Validation of the IndexSettings of a request body: each field against
\* its own limits.
IndexSettingsValid(settings) ==
    /\ settings.chunk_size >= ChunkSizeGe
    /\ settings.chunk_size <= ChunkSizeLe
    /\ settings.chunk_overlap >= ChunkOverlapGe
    /\ settings.chunk_overlap <= ChunkOverlapLe

\* A request whose settings fail validation: HTTP 422, nothing touched.
ValidationFailed(op, candidates) ==
    /\ \E settings \in candidates : ~IndexSettingsValid(settings)
    /\ last' = [op |-> op, code |-> 422, arg |-> <<>>, ret |-> <<>>]
    /\ UNCHANGED <<ct, index_exists, index_meta, docs, chunks, chunk_mapping,
                   leann_index, searcher_cache, leann_available, ingest,
                   rebuild, builds>>

\* POST /indexes and POST /indexes/{name}/rebuild with a settings body.
CreateIndexRequest(candidates) ==
    \/ ValidationFailed("create_index", candidates)
    \/ CreateIndex({s \in candidates : IndexSettingsValid(s)})

RebuildIndexRequest(candidates) ==
    \/ ValidationFailed("rebuild_index", candidates)
    \/ RebuildIndex({s \in candidates : IndexSettingsValid(s)})

\* Settings bodies around the limits of the schema, and the chunk_size and
\* chunk_overlap options of an add request (0: not given), which the
\* DocumentAddOptions schema takes as any integer.
SettingsCandidates ==
    [chunk_size : {63, 64}, chunk_overlap : {0, 64, 513}]
AddOptionSizes == {0, 1}
AddOptionOverlaps == {0, 1}
OptionInputs == [metadata : {NoMetadata}, content : {TextShort}, id : {DocA}]

NextSettings ==
    \/ CreateIndexRequest(SettingsCandidates)
    \/ RebuildIndexRequest(SettingsCandidates)
    \/ IngestBegin(1, OptionInputs, AddOptionSizes, AddOptionOverlaps)
    \/ IngestLoad(1)
    \/ IngestSaveDocument(1)
    \/ IngestSaveChunk(1)
    \/ IngestReadMeta(1)
    \/ IngestUpdateMetadata(1)

SpecSettings == InitAdd /\ [][NextSettings]_vars

\* Two worker processes ingesting into one index side by side.
CounterInputs == [metadata : {NoMetadata}, content : {TextShort}, id : {DocA}]

NextCounters ==
    \/ CreateIndex(SettingsChoices)
    \/ \E w \in Workers : IngestBegin(w, CounterInputs, NotGiven, NotGiven)
    \/ \E w \in Workers : IngestLoad(w)
    \/ \E w \in Workers : IngestSaveDocument(w)
    \/ \E w \in Workers : IngestSaveChunk(w)
    \/ \E w \in Workers : IngestReadMeta(w)
    \/ \E w \in Workers : IngestUpdateMetadata(w)

SpecCounters == InitAdd /\ [][NextCounters]_vars

\* Semantic searches beside a rebuild stepped one file access at a time,
\* which may be interrupted, over an index that grows between rebuilds.
SwapInputs == [metadata : {NoMetadata}, content : {TextShort}, id : {DocA, DocB}]

NextSwap ==
    \/ CreateIndex(SettingsChoices)
    \/ AddDocuments(SwapInputs, NotGiven, NotGiven)
    \/ RebuildBegin({})
    \/ RebuildEnumerate
    \/ RebuildRead
    \/ RebuildBuild
    \/ RebuildSaveMapping
    \/ RebuildFinish
    \/ RebuildInterrupt
    \/ SemanticSearch({1}, {Absent}, {0}, {AnnList(<<AnnPair(0, 1)>>)}, {1}, {TRUE})

SpecSwap == InitCache /\ [][NextSwap]_vars

\* Field values and operands of the filter evaluations.
FilterValues ==
    {JNull, JBool(TRUE), JBool(FALSE), JInt(0), JInt(1),
     JStr(<<"a">>), JStr(<<"a", "b">>),
     JList(<<JInt(1)>>), JList(<<JNull>>), JList(<<JStr(<<"a">>)>>)}

\* The metadata of a stored document or chunk: None, {}, or field k (and j).
FilterMetadatas ==
    {NoMetadata, MetaEmpty}
       \cup {Dict([k |-> v]) : v \in FilterValues}
       \cup {Dict([k |-> JInt(1), j |-> v]) : v \in {JBool(TRUE), JInt(0)}}

\* Operators of the requests: the recognised ones and one that is not.
FilterOps == KnownOps \cup {"regex"}

\* {"k": {op: operand}} and {"k": scalar}
SingleOpFilters ==
    {<<FilterItem("k", Ops(<<OpItem(op, operand)>>))>> :
        op \in FilterOps, operand \in FilterValues}
ScalarFilters == {<<FilterItem("k", Scalar(v))>> : v \in FilterValues}

\* Two operators under one field, and one operator under each of two fields.
ConjunctOps == {"==", "!=", "is_true", "regex"}
ConjunctOperands == {JNull, JBool(TRUE), JInt(1)}
ConjunctItems == {OpItem(op, operand) : op \in ConjunctOps, operand \in ConjunctOperands}
ConjunctionFilters ==
    {<<FilterItem("k", Ops(<<pair[1], pair[2]>>))>> :
        pair \in {x \in ConjunctItems \X ConjunctItems : x[1].op # x[2].op}}
       \cup {<<FilterItem("k", Ops(<<a>>)), FilterItem("j", Ops(<<b>>))>> :
                a \in ConjunctItems, b \in ConjunctItems}

FilterChoices == SingleOpFilters \cup ScalarFilters \cup ConjunctionFilters

\* One _matches_filter call on a metadata value and a predicate.
InitFilter ==
    /\ ct = IdleFrame
    /\ ingest = [w \in Workers |-> NoIngest]
    /\ rebuild = NoRebuild
    /\ builds = {}
    /\ index_exists = FALSE
    /\ index_meta = NoIndexMeta
    /\ docs = NoFiles
    /\ chunks = NoFiles
    /\ chunk_mapping = <<>>
    /\ leann_index = NoArtifact
    /\ searcher_cache = NoSearcher
    /\ leann_available = FALSE
    /\ \E metadata \in FilterMetadatas, filters \in FilterChoices :
          last = [op |-> "matches_filter", code |-> 0,
                  arg |-> [metadata |-> metadata, filters |-> filters],
                  ret |-> "pending"]

\* The call returns a bool (code 200) or raises (code 500).
MatchesFilterCall ==
    /\ last.op = "matches_filter"
    /\ last.code = 0
    /\ \E r \in {MatchesFilter(last.arg.metadata, last.arg.filters)} :
          last' = [last EXCEPT !.code = IF r = "raise" THEN 500 ELSE 200,
                               !.ret = r]
    /\ UNCHANGED <<ct, ingest, rebuild, builds, index_exists, index_meta, docs,
                   chunks, chunk_mapping, leann_index, searcher_cache,
                   leann_available>>

NextFilter == MatchesFilterCall

SpecFilter == InitFilter /\ [][NextFilter]_vars

\* One _chunk_text call on a text and parameters with 0 <= overlap < size.
InitChunk ==
    /\ \E text \in ChunkerTexts, chunk_size \in 2 .. MaxChunkSize :
          \E chunk_overlap \in 0 .. (chunk_size - 1) :
             ct = [text |-> text, start |-> 0, chunk_size |-> chunk_size,
                   chunk_overlap |-> chunk_overlap, chunks |-> <<>>, pc |-> "call"]
    /\ index_exists = FALSE
    /\ index_meta = NoIndexMeta
    /\ docs = NoFiles
    /\ chunks = NoFiles
    /\ chunk_mapping = <<>>
    /\ leann_index = NoArtifact
    /\ searcher_cache = NoSearcher
    /\ ingest = [w \in Workers |-> NoIngest]
    /\ rebuild = NoRebuild
    /\ builds = {}
    /\ leann_available = TRUE
    /\ last = NoCall

NextChunk ==
    \/ ChunkEnter
    \/ ChunkIterate

\* The interpreter keeps running the loop: a call that can step does step.
SpecChunk == InitChunk /\ [][NextChunk]_vars /\ WF_vars(NextChunk)

(***************************************************************************)
(* Properties                                                              *)
(***************************************************************************)

\* The chunk records on disk that name doc_id as their document.
ChunksOf(doc_id) == {c \in DOMAIN chunks : chunks[c].document_id = doc_id}

\* The ids of a sequence.
Range(seq) == {seq[i] : i \in 1 .. Len(seq)}

\* The last handler call completed with HTTP 200 and was `op`.
Completed(op) == last.op = op /\ last.code = 200

\* C1: after every completed write path (AddDocuments, UpdateDocument,
\* DeleteDocument, BulkDelete, Rebuild) the running chunk_count of the index
\* equals the number of chunk records on disk.
ChunkCountMatchesDisk ==
    index_exists => index_meta.chunk_count = Cardinality(DOMAIN chunks)

\* C5: the chunk records of every stored document have exactly the positions
\* 0 .. chunk_count-1 of the document record, each under the chunk_id
\* "{document_id}_chunk_{position}"; no chunk of replaced content survives.
DocumentChunksContiguous ==
    \A d \in DOMAIN docs :
        /\ {chunks[c].position : c \in ChunksOf(d)} = 0 .. (docs[d].chunk_count - 1)
        /\ \A c \in ChunksOf(d) : c = ChunkIdOf(d, chunks[c].position)

\* The documents whose metadata the last completed call wrote.
MetadataWritten ==
    IF Completed("update_document") \/ Completed("update_metadata_only")
    THEN {last.arg.id}
    ELSE IF Completed("add_documents")
    THEN {last.ret[i].id : i \in {j \in 1 .. Len(last.ret) :
                                     last.ret[j].status = "updated"}}
    ELSE {}

\* C9: after AddDocuments replacing an existing id, UpdateDocument or
\* UpdateMetadataOnly, every chunk record of that document carries the
\* metadata of the document record.
ChunkMetadataFollowsDocument ==
    \A d \in MetadataWritten \cap DOMAIN docs :
        \A c \in ChunksOf(d) : chunks[c].metadata = docs[d].metadata

\* C2: whenever an ANN artifact exists and the chunk directory holds a chunk
\* record that the OrdinalMap does not list, the index status is "building".
StaleArtifactIsBuilding ==
    (/\ index_exists
     /\ leann_index.exists
     /\ \E c \in DOMAIN chunks : c \notin Range(chunk_mapping))
        => IndexStatus = "building"

\* C3: after a completed Rebuild or DeleteIndex the searcher cache holds no
\* entry for the index, and a semantic search answered through the ANN path
\* uses a searcher opened from the artifact now on disk.
CacheDroppedAfterIndexWrite ==
    /\ (Completed("rebuild_index") \/ Completed("delete_index"))
          => ~searcher_cache.cached
    /\ (Completed("search") /\ last.ret.path = "ann")
          => last.ret.searcher = leann_index.texts

\* C4: every _chunk_text call with 0 <= chunk_overlap < chunk_size returns.
ChunkerTerminates == <>(ct.pc = "done")

\* The chunk ids of the content now stored for the documents.
CurrentChunkIds ==
    UNION {{ChunkIdOf(d, p) : p \in 0 .. (docs[d].chunk_count - 1)} : d \in DOMAIN docs}

\* A Rebuild that enumerated chunk files and had the builder completed.
RebuiltArtifact ==
    Completed("rebuild_index") /\ leann_available /\ DOMAIN chunks # {}

\* C6: a Rebuild that follows content updates writes an OrdinalMap with one
\* entry per chunk of the documents' current content and no other chunk_id,
\* whichever operation replaced the content.
RebuildListsCurrentChunks ==
    RebuiltArtifact =>
        /\ Len(chunk_mapping) = Cardinality(CurrentChunkIds)
        /\ Range(chunk_mapping) \subseteq CurrentChunkIds

\* C7: after every completed Rebuild, the empty chunk set included, the
\* OrdinalMap has as many entries as chunk files were enumerated and its i-th
\* entry is the chunk whose text was the i-th one given to the builder.
RebuildMapMatchesEnumeration ==
    (Completed("rebuild_index") /\ leann_available) =>
        /\ Len(chunk_mapping) = last.ret
        /\ Len(chunk_mapping) = Cardinality(DOMAIN chunks)
        /\ Len(leann_index.texts) = Len(chunk_mapping)
        /\ \A i \in 1 .. Len(chunk_mapping) :
              /\ chunk_mapping[i] \in DOMAIN chunks
              /\ leann_index.texts[i] = chunks[chunk_mapping[i]].content

\* The OrdinalMap lists each chunk once, in ascending order of chunk file name
\* (the chunk_id followed by ".json").
MappingInFileNameOrder ==
    \A i, j \in 1 .. Len(chunk_mapping) :
        i < j => PathLess(chunk_mapping[i], chunk_mapping[j])

\* The OrdinalMap lists each chunk once, in ascending order of chunk_id.
MappingInChunkIdOrder ==
    \A i, j \in 1 .. Len(chunk_mapping) :
        i < j => StrLess(chunk_mapping[i], chunk_mapping[j])

\* A Rebuild that directly follows a completed Rebuild leaves the OrdinalMap
\* and the artifact as the first one wrote them.
SecondRebuildKeepsMapping ==
    (Completed("rebuild_index") /\ last'.op = "rebuild_index" /\ last'.code = 200)
        => /\ chunk_mapping' = chunk_mapping
           /\ leann_index' = leann_index

EarlierInBatch(ids, i) == \E j \in 1 .. (i - 1) : ids[j] = ids[i]

\* What a completed AddDocuments step answers and leaves on disk, relating the
\* store before the call to the store and the response after it.
AddStep ==
    (last'.op = "add_documents" /\ last'.code = 200) =>
        LET ids == last'.arg.ids
            res == last'.ret
        IN /\ Len(res) = Len(ids)
           /\ \A i \in 1 .. Len(ids) : res[i].id = ids[i]
           /\ ~last'.arg.update_if_exists =>
                 \A i \in 1 .. Len(ids) :
                    /\ ids[i] \in DOMAIN docs =>
                          /\ res[i] = [chunk_count |-> 0, id |-> ids[i],
                                       status |-> "failed",
                                       error |-> "Document already exists"]
                          /\ ids[i] \in DOMAIN docs'
                          /\ docs'[ids[i]] = docs[ids[i]]
                          /\ \A c \in DOMAIN chunks \cup DOMAIN chunks' :
                                (\/ (c \in DOMAIN chunks /\ chunks[c].document_id = ids[i])
                                 \/ (c \in DOMAIN chunks' /\ chunks'[c].document_id = ids[i]))
                                   => /\ c \in DOMAIN chunks
                                      /\ c \in DOMAIN chunks'
                                      /\ chunks'[c] = chunks[c]
                    /\ (ids[i] \notin DOMAIN docs /\ ~EarlierInBatch(ids, i)) =>
                          /\ res[i].status = "added"
                          /\ ids[i] \in DOMAIN docs'
                    /\ (ids[i] \notin DOMAIN docs /\ EarlierInBatch(ids, i)) =>
                          res[i].status = "failed"

\* C10: an AddDocuments call with update_if_exists false answers one outcome
\* per input in input order; an input whose id was already stored gets
\* chunk_count 0, status "failed" and error "Document already exists", its
\* document record and chunk records stay as they were, and the inputs after
\* it are still processed.
AddRefusesExisting == [][AddStep]_vars

\* An AddDocuments call without update_if_exists has refused its first input
\* and stored its second one.
RefusedThenAdded ==
    /\ Completed("add_documents")
    /\ ~last.arg.update_if_exists
    /\ Len(last.ret) = 2
    /\ last.ret[1].status = "failed"
    /\ last.ret[1].error = "Document already exists"
    /\ last.ret[2].status = "added"

\* What an update of a document's metadata stores: with merge and a prior
\* map, the keys of both maps, the given value for each given key and the
\* prior value for every other key; otherwise the given map.
MetadataStep ==
    (/\ last'.op \in {"update_document", "update_metadata_only"}
     /\ last'.code = 200
     /\ last'.arg.metadata.given) =>
        LET doc_id == last'.arg.id
            p == docs[doc_id].metadata
            m == last'.arg.metadata.value
            stored == docs'[doc_id].metadata
        IN IF last'.arg.merge /\ ~p.null
           THEN /\ ~stored.null
                /\ DOMAIN stored.map = (DOMAIN p.map) \cup (DOMAIN m.map)
                /\ \A k \in DOMAIN m.map : stored.map[k] = m.map[k]
                /\ \A k \in (DOMAIN p.map) \ (DOMAIN m.map) :
                      stored.map[k] = p.map[k]
           ELSE stored = m

\* A GetDocument answers the stored metadata and content of the document,
\* in particular right after an update of it.
GetStep ==
    (last'.op = "get_document" /\ last'.code = 200) =>
        /\ last'.ret.metadata = docs[last'.arg.id].metadata
        /\ last'.ret.content = docs[last'.arg.id].content

\* C11: UpdateDocument and UpdateMetadataOnly given metadata m store the
\* shallow union of the prior metadata and m (m's keys win, the other prior
\* keys survive) when merge is true and prior metadata exists, and exactly m
\* otherwise; a following GetDocument returns that metadata and the stored
\* content.
MetadataMergeRoundTrip == [][MetadataStep /\ GetStep]_vars

\* A GetDocument has returned a merged map: key k overridden by the update,
\* key j kept from the document as added.
ReadMergedMetadata ==
    /\ Completed("get_document")
    /\ last.ret.metadata = Dict([k |-> JInt(2), j |-> JInt(1)])
    /\ last.ret.content = docs[DocA].content

\* A _matches_filter call has returned or raised.
Evaluated == last.op = "matches_filter" /\ last.code # 0

\* The call was on {"k": {op: operand}} for a recognised op, with field k
\* absent from the metadata dict or null in it.
OneOpOnAbsentField ==
    /\ Evaluated
    /\ Len(last.arg.filters) = 1
    /\ last.arg.filters[1].condition.dict
    /\ Len(last.arg.filters[1].condition.ops) = 1
    /\ last.arg.filters[1].condition.ops[1].op \in KnownOps
    /\ ~last.arg.metadata.null
    /\ MetadataGet(last.arg.metadata, last.arg.filters[1].field) = JNull

\* A list operand that holds a null.
ListWithNull(operand) ==
    \E i \in 1 .. Len(operand.v) : operand.v[i] = JNull

\* The null-field table: `!=`, `in` and `not_in` against a null operand or a
\* list holding null compare the absent value as null, like `==` does.
NullFieldTable ==
    OneOpOnAbsentField =>
        LET op == last.arg.filters[1].condition.ops[1].op
            operand == last.arg.filters[1].condition.ops[1].operand
        IN CASE op = "==" -> last.ret = Bool(operand = JNull)
             [] op = "!=" -> last.ret = Bool(operand # JNull)
             [] op = "in" ->
                  operand.t = "list" => last.ret = Bool(ListWithNull(operand))
             [] op = "not_in" ->
                  operand.t = "list" => last.ret = Bool(~ListWithNull(operand))
             [] OTHER -> last.ret = "false"

\* The null-field table as stated: `!=` and `not_in` pass, `in` fails.
NullFieldTableAsStated ==
    OneOpOnAbsentField =>
        LET op == last.arg.filters[1].condition.ops[1].op
            operand == last.arg.filters[1].condition.ops[1].operand
        IN CASE op = "==" -> last.ret = Bool(operand = JNull)
             [] op = "!=" -> last.ret = "true"
             [] op = "in" -> operand.t = "list" => last.ret = "false"
             [] op = "not_in" -> operand.t = "list" => last.ret = "true"
             [] OTHER -> last.ret = "false"

\* is_true / is_false on a present value hold for the booleans true / false
\* themselves and for nothing else.
StrictBooleanIdentity ==
    (/\ Evaluated
     /\ Len(last.arg.filters) = 1
     /\ last.arg.filters[1].condition.dict
     /\ Len(last.arg.filters[1].condition.ops) = 1
     /\ ~last.arg.metadata.null) =>
        LET op == last.arg.filters[1].condition.ops[1].op
            value == MetadataGet(last.arg.metadata, last.arg.filters[1].field)
        IN /\ op = "is_true" => last.ret = Bool(value.t = "bool" /\ value.v)
           /\ op = "is_false" => last.ret = Bool(value.t = "bool" /\ ~value.v)

\* The predicates {field: {op: operand}} of every operator of every dict
\* condition, and {field: scalar} of every scalar condition.
Conjuncts(filters) ==
    UNION {IF filters[i].condition.dict
           THEN {<<FilterItem(filters[i].field, Ops(<<filters[i].condition.ops[n]>>))>> :
                    n \in 1 .. Len(filters[i].condition.ops)}
           ELSE {<<filters[i]>>} : i \in 1 .. Len(filters)}

\* A predicate holds exactly when each of its operators holds by itself.
ConjunctionRule ==
    (Evaluated /\ ~last.arg.metadata.null) =>
        (last.ret = "true" <=>
            \A one \in Conjuncts(last.arg.filters) :
                MatchesFilter(last.arg.metadata, one) = "true")

\* C12: filter evaluation follows the null-field table (for an absent field
\* `==` holds only against null, `!=` holds unless the operand is null, `in`
\* fails and `not_in` passes unless the list holds null, every other operator
\* fails), is_true / is_false use strict boolean identity, and a predicate
\* holds only if every operator under every field holds.
FilterFollowsTable ==
    NullFieldTable /\ StrictBooleanIdentity /\ ConjunctionRule

\* C12 as stated: for an absent field `!=` and `not_in` pass and `in` fails
\* whatever the operand.
FilterFollowsStatedTable ==
    NullFieldTableAsStated /\ StrictBooleanIdentity /\ ConjunctionRule

\* `!=` against null has been evaluated on metadata without the field.
NotEqualNullOnAbsentField ==
    /\ OneOpOnAbsentField
    /\ last.arg.metadata = MetaEmpty
    /\ last.arg.filters[1].condition.ops[1] = OpItem("!=", JNull)
    /\ last.ret = "false"

\* The operators a predicate names.
OpsNamed(filters) ==
    UNION {{filters[i].condition.ops[n].op : n \in 1 .. Len(filters[i].condition.ops)} :
              i \in 1 .. Len(filters)}

\* C13: a predicate that names an operator outside the recognised set never
\* evaluates to true; its evaluation fails with an error.
UnknownOperatorNeverTrue ==
    (Evaluated /\ ~(OpsNamed(last.arg.filters) \subseteq KnownOps)) =>
        last.ret # "true"

\* C14: the evaluation of a predicate of recognised operators on the metadata
\* of a stored document or chunk (None included) against operands of any
\* type returns a boolean and does not raise.
FilterEvaluationTotal ==
    (Evaluated /\ OpsNamed(last.arg.filters) \subseteq KnownOps) =>
        last.ret \in {"true", "false"}

\* The ordinal and the score a hit of the searcher's answer stands for: those
\* of an (ordinal, score) pair of a list, and the position and the score of an
\* item of another iterable.
HitOrdinal(ann, k) == IF ann.list THEN ann.items[k].idx ELSE k - 1
HitScore(ann, k) == IF ann.list THEN ann.items[k].score ELSE IterScore(ann.items[k])

\* The ANN hits behind the results: an increasing choice of positions in the
\* searcher's answer, each a hit whose ordinal lies inside the OrdinalMap and
\* maps to the result's chunk_id, with the hit's score.
FollowsAnnRanks(results, ann, mapping) ==
    \E at \in [1 .. Len(results) -> 1 .. Len(ann.items)] :
       /\ \A i, j \in 1 .. Len(results) : i < j => at[i] < at[j]
       /\ \A i \in 1 .. Len(results) :
             /\ ann.list => ann.items[at[i]].kind = "pair"
             /\ HitOrdinal(ann, at[i]) \in 0 .. Len(mapping) - 1
             /\ results[i].chunk_id = mapping[HitOrdinal(ann, at[i]) + 1]
             /\ results[i].score = HitScore(ann, at[i])

\* C15: every result list returned by SemanticSearch has at most top_k
\* entries, every entry's chunk metadata satisfies the supplied filter and
\* every entry's score is at least min_score; when the searcher's hits
\* produced the answer, each entry's chunk_id is the OrdinalMap entry of an
\* ordinal the searcher returned, the entries keep the searcher's rank order
\* and no entry comes from an ordinal outside the OrdinalMap.
SemanticSearchResultsBounded ==
    Completed("search") =>
        LET results == last.ret.results
            arg == last.arg
        IN /\ Len(results) <= arg.top_k
           /\ \A i \in 1 .. Len(results) :
                 /\ results[i].chunk_id \in DOMAIN chunks
                 /\ results[i].metadata = chunks[results[i].chunk_id].metadata
                 /\ arg.metadata_filters.given =>
                       MatchesFilter(results[i].metadata,
                                     arg.metadata_filters.value) = "true"
                 /\ results[i].score >= arg.min_score
           /\ last.ret.answered = "ann" =>
                 FollowsAnnRanks(results, arg.ann, chunk_mapping)

\* A filtered search with min_score 1 answered from the searcher's hits, whose
\* first hit names an ordinal outside the OrdinalMap and is passed over.
AnnSkippedOutOfRange ==
    /\ Completed("search")
    /\ last.ret.answered = "ann"
    /\ last.arg.metadata_filters.given
    /\ last.arg.min_score = 1
    /\ last.arg.ann.list
    /\ Len(last.arg.ann.items) = 2
    /\ last.arg.ann.items[1].idx >= Len(chunk_mapping)
    /\ Len(last.ret.results) = 1

\* Two characters are the same letter, whatever their case.
SameLetter(a, b) == a = b \/ {a, b} = {"a", "A"} \/ {a, b} = {"b", "B"}

\* The offsets at which content holds query as a case-insensitive literal
\* substring.
Occurrences(content, query) ==
    {p \in 0 .. Len(content) - Len(query) :
        \A i \in 1 .. Len(query) : SameLetter(content[p + i], query[i])}

\* The chunks a keyword search is to report, in storage order: those whose
\* metadata satisfies the filter and whose content holds the query.
GrepExpected(arg) ==
    SelectSeq(LoadAllChunks(chunks),
              LAMBDA c :
                 /\ arg.metadata_filters.given =>
                       MatchesFilter(chunks[c].metadata,
                                     arg.metadata_filters.value) = "true"
                 /\ Occurrences(chunks[c].content, arg.query) # {})

\* The results are the first top_k expected chunks, in order.
GrepReportsFirstMatchingChunks ==
    LET expected == GrepExpected(last.arg)
        results == last.ret
    IN /\ Len(results) = IF Len(expected) < last.arg.top_k
                         THEN Len(expected) ELSE last.arg.top_k
       /\ \A i \in 1 .. Len(results) :
             /\ results[i].chunk_id = expected[i]
             /\ results[i].content = chunks[expected[i]].content
             /\ results[i].match_positions # <<>>

\* match_positions lists, in increasing order, occurrences of the query as
\* [start, end) ranges that do not overlap, and every occurrence left out
\* starts inside a listed range.
ListsLeftmostMatches(result, query) ==
    LET mp == result.match_positions
        occ == Occurrences(result.content, query)
    IN /\ \A i \in 1 .. Len(mp) :
             mp[i][1] \in occ /\ mp[i][2] = mp[i][1] + Len(query)
       /\ \A i \in 1 .. Len(mp) - 1 : mp[i][2] <= mp[i + 1][1]
       /\ \A q \in occ :
             \E i \in 1 .. Len(mp) : mp[i][1] <= q /\ q < mp[i][2]

\* match_positions lists every occurrence of the query, in increasing order.
ListsEveryOccurrence(result, query) ==
    LET mp == result.match_positions
        occ == Occurrences(result.content, query)
    IN /\ \A i \in 1 .. Len(mp) :
             mp[i][1] \in occ /\ mp[i][2] = mp[i][1] + Len(query)
       /\ \A i \in 1 .. Len(mp) - 1 : mp[i][1] < mp[i + 1][1]
       /\ \A q \in occ : \E i \in 1 .. Len(mp) : mp[i][1] = q

\* C16: GrepSearch returns, in storage order, the first top_k chunks that
\* satisfy the filter and whose content holds the query as a case-insensitive
\* literal substring; no returned chunk has zero matches, no earlier matching
\* chunk is left out, and each returned chunk lists its matches as
\* [start, end) ranges: the matches found scanning left to right, each scan
\* resuming at the end of the previous match.
GrepReturnsLeftmostMatches ==
    Completed("grep_search") =>
        /\ GrepReportsFirstMatchingChunks
        /\ \A i \in 1 .. Len(last.ret) :
              ListsLeftmostMatches(last.ret[i], last.arg.query)

\* C16 as stated: each returned chunk lists every match of the query.
GrepReturnsEveryMatch ==
    Completed("grep_search") =>
        /\ GrepReportsFirstMatchingChunks
        /\ \A i \in 1 .. Len(last.ret) :
              ListsEveryOccurrence(last.ret[i], last.arg.query)

\* A keyword search for "Aa" that reports "aAa" with the one range [0, 2),
\* while the content holds the query at offsets 0 and 1.
GrepOverlappingOccurrences ==
    /\ Completed("grep_search")
    /\ last.arg.query = <<"A", "a">>
    /\ \E i \in 1 .. Len(last.ret) :
          /\ last.ret[i].content = TextEcho
          /\ last.ret[i].match_positions = <<<<0, 2>>>>
          /\ Occurrences(TextEcho, last.arg.query) = {0, 1}

\* The chunk_ids of a result list.
ChunkIdsOf(results) == {results[i].chunk_id : i \in 1 .. Len(results)}

\* The number N the keyword ranks of a hybrid answer are divided by: the
\* number of grep hits, and 1 when there is none.
GrepHitCount == IF Len(last.ret.grep) = 0 THEN 1 ELSE Len(last.ret.grep)

\* sem of a chunk: the raw score of its semantic hit, 0 without one.
SemOf(c) ==
    IF c \in ChunkIdsOf(last.ret.semantic)
    THEN (CHOOSE hit \in Range(last.ret.semantic) : hit.chunk_id = c).score
    ELSE 0

\* kw of a chunk times N: N - i for the grep hit at zero-based rank i, 0
\* without one.
KwOf(c) ==
    IF c \in ChunkIdsOf(last.ret.grep)
    THEN GrepHitCount
           - ((CHOOSE i \in 1 .. Len(last.ret.grep) :
                  last.ret.grep[i].chunk_id = c) - 1)
    ELSE 0

\* semantic_weight * sem + keyword_weight * kw of a chunk, times
\* WeightScale * N.
HybridScoreOf(c) ==
    last.arg.semantic_weight * SemOf(c) * GrepHitCount
        + last.arg.keyword_weight * KwOf(c)

\* C17: HybridSearch scores every chunk in the union of the semantic hits and
\* the grep hits (each fetched with top_k * 3) as
\* semantic_weight * sem + keyword_weight * kw, where sem is the raw semantic
\* score (0 without a semantic hit) and kw = (N - i) / N for the grep hit at
\* zero-based rank i of N grep hits (0 without a grep hit), and returns the
\* top_k chunks in descending combined score.
HybridScoresAndRanks ==
    Completed("hybrid_search") =>
        LET results == last.ret.results
            union == ChunkIdsOf(last.ret.semantic) \cup ChunkIdsOf(last.ret.grep)
        IN /\ Len(last.ret.semantic) <= last.arg.top_k * 3
           /\ Len(last.ret.grep) <= last.arg.top_k * 3
           /\ Len(results) = IF Cardinality(union) < last.arg.top_k
                              THEN Cardinality(union) ELSE last.arg.top_k
           /\ Cardinality(ChunkIdsOf(results)) = Len(results)
           /\ \A i \in 1 .. Len(results) :
                 /\ results[i].chunk_id \in union
                 /\ results[i].score.den = WeightScale * GrepHitCount
                 /\ results[i].score.num = HybridScoreOf(results[i].chunk_id)
           /\ \A i \in 1 .. Len(results) - 1 :
                 results[i].score.num >= results[i + 1].score.num
           /\ \A c \in union \ ChunkIdsOf(results) :
                 \A i \in 1 .. Len(results) :
                    HybridScoreOf(c) <= results[i].score.num

\* A hybrid search with the default weights over two grep hits, one of them
\* also the only semantic hit, that returns the chunk with both hits first.
HybridRanksBothSides ==
    /\ Completed("hybrid_search")
    /\ last.arg.semantic_weight = 7 /\ last.arg.keyword_weight = 3
    /\ last.arg.top_k = 2
    /\ Len(last.ret.grep) = 2
    /\ Len(last.ret.semantic) = 1
    /\ last.ret.semantic[1].score = 1
    /\ last.ret.semantic[1].chunk_id = last.ret.grep[2].chunk_id
    /\ Len(last.ret.results) = 2
    /\ last.ret.results[1].chunk_id = last.ret.grep[2].chunk_id
    /\ last.ret.results[1].score = [num |-> 17, den |-> 20]
    /\ last.ret.results[2].score = [num |-> 6, den |-> 20]

\* The result lists SemanticSearch(top_k) may give for the ranking, the
\* filter and the embedding model of the last hybrid search.
SemanticTopK ==
    {out.results :
        out \in {o \in SearchOutcomes(searcher_cache, leann_index,
                                       leann_available, chunk_mapping, chunks,
                                       last.arg.top_k, last.arg.metadata_filters,
                                       0, last.arg.ranking, last.arg.encoder,
                                       HybridScores) : o.code = 200}}

\* C18: with keyword_weight = 0 the chunks returned by HybridSearch(top_k) are
\* a permutation of the chunks returned by SemanticSearch(top_k) with the same
\* filter: the same chunk_ids, and no chunk that is a grep hit only.
HybridDominance ==
    (Completed("hybrid_search") /\ last.arg.keyword_weight = 0) =>
        /\ \E semantic \in SemanticTopK :
              ChunkIdsOf(last.ret.results) = ChunkIdsOf(semantic)
        /\ ChunkIdsOf(last.ret.results) \subseteq ChunkIdsOf(last.ret.semantic)

\* The documents a bulk deletion is to remove: the listed ids that exist
\* when ids are given, else the documents whose metadata satisfies the
\* filter.
BulkTargets(request) ==
    IF request.document_ids.given /\ request.document_ids.value # <<>>
    THEN Range(request.document_ids.value) \cap DOMAIN docs
    ELSE {d \in DOMAIN docs :
             MatchesFilter(docs[d].metadata,
                           request.metadata_filter.value) = "true"}

\* What a completed BulkDelete step removes, leaves and answers.
BulkDeleteStep ==
    (last'.op = "bulk_delete" /\ last'.code = 200) =>
        LET targets == BulkTargets(last'.arg)
        IN /\ docs' = Without(docs, targets)
           /\ chunks' = Without(chunks, UNION {ChunksOf(d) : d \in targets})
           /\ last'.ret = Cardinality(targets)

\* C19: BulkDelete with a metadata_filter removes exactly the documents whose
\* metadata satisfies the filter together with their chunks, leaves all other
\* documents and their chunks in place and returns the number of documents
\* removed; when document_ids and metadata_filter are both given only the ids
\* are used; ids that are absent or repeated are not counted.
BulkDeleteRemovesExactlyTargets == [][BulkDeleteStep]_vars

\* What a Create step answers and writes, relating the index before the call
\* to the index after it.
CreateStep ==
    (last'.op = "create_index") =>
        IF index_exists
        THEN /\ last'.code = 409
             /\ UNCHANGED <<index_exists, index_meta, docs, chunks,
                            chunk_mapping, leann_index>>
        ELSE /\ last'.code = 200
             /\ index_exists'
             /\ index_meta'.chunk_count = 0
             /\ index_meta'.total_characters = 0
             /\ index_meta'.updated_at = FALSE
             /\ docs' = NoFiles
             /\ last'.ret = "empty"
             /\ IndexStatus' = "empty"

\* C20: Create on a name whose index directory exists fails with
\* INDEX_ALREADY_EXISTS (HTTP 409) and leaves the index's metadata, counters
\* and documents unchanged; on an absent name it creates the index with
\* chunk_count = 0, total_characters = 0, updated_at null and status `empty`.
CreateRefusesExistingIndex == [][CreateStep]_vars

\* A Create refused on an index that holds documents and counted chunks.
CreateRefusedOnPopulatedIndex ==
    /\ last.op = "create_index"
    /\ last.code = 409
    /\ DOMAIN docs # {}
    /\ index_meta.chunk_count > 0
    /\ index_meta.updated_at

\* What a DeleteDocument step answers and removes, and what a GetDocument
\* step answers for an id that is not present.
DeleteStep ==
    /\ (last'.op = "delete_document" /\ last'.code # 404) =>
          /\ last'.code = 200
          /\ last'.arg.id \in DOMAIN docs
          /\ last'.arg.id \notin DOMAIN docs'
          /\ \A c \in DOMAIN chunks' :
                chunks'[c].document_id # last'.arg.id
    /\ (last'.op = "delete_document" /\ last'.code = 404 /\ index_exists) =>
          /\ last'.arg.id \notin DOMAIN docs
          /\ UNCHANGED <<index_exists, index_meta, docs, chunks,
                         chunk_mapping, leann_index, searcher_cache>>
    /\ (last'.op = "get_document" /\ index_exists
           /\ last'.arg.id \notin DOMAIN docs) =>
          last'.code = 404

\* After a successful delete the document is not present, so that the steps
\* above answer the next GetDocument and DeleteDocument of its id with 404.
DeletedIsAbsent ==
    Completed("delete_document") =>
        /\ last.arg.id \notin DOMAIN docs
        /\ ChunksOf(last.arg.id) = {}

ChunksBoundedBySize ==
    /\ \A i \in 1 .. Len(ct.chunks) :
          Len(ct.chunks[i]) <= ct.chunk_size + 2
    /\ (ct.pc = "done" /\ ct.text # <<>>) => Len(ct.chunks) >= 1
    /\ (ct.pc = "done" /\ ct.text = <<>>) => ct.chunks = <<>>

\* A returned call that broke a text at a separator: more than one chunk,
\* one of them as long as chunk_size.
ChunkedAtSeparator ==
    /\ ct.pc = "done"
    /\ Len(ct.chunks) >= 2
    /\ Len(ct.chunks[1]) < ct.chunk_size
    /\ \E i \in 1 .. Len(ct.chunks) : Len(ct.chunks[i]) = ct.chunk_size

\* Every document record on disk has the chunk files it counts.
DocumentsHaveTheirChunks ==
    \A d \in DOMAIN docs :
        \A p \in 0 .. (docs[d].chunk_count - 1) :
            /\ ChunkIdOf(d, p) \in DOMAIN chunks
            /\ chunks[ChunkIdOf(d, p)].document_id = d

\* C23: add_documents writes the chunk records of a document before its
\* document record and the counters after the loop, so that once no ingest
\* is running - whether it returned or was interrupted - every document
\* record on disk has its chunks written.
InterruptedIngestKeepsChunks ==
    (\A w \in Workers : ingest[w].pc = "idle") => DocumentsHaveTheirChunks

\* C24: a rebuild that runs beside document writes completes, and builds
\* the artifact and the OrdinalMap from exactly the chunk files it
\* enumerated at the start of its pass.
RebuildBuildsFromSnapshot ==
    /\ ~(last.op = "rebuild_index" /\ last.code = 500)
    /\ rebuild.pc = "save_mapping" =>
          /\ rebuild.chunk_mapping = rebuild.chunk_files
          /\ Len(leann_index.texts) = Len(rebuild.chunk_files)

\* C25: the chunks GetDocument returns are in ascending position order,
\* whatever their number.
GetDocumentChunksInPositionOrder ==
    (last.op = "get_document" /\ last.code = 200) =>
        \A i \in 1 .. (Len(last.ret.chunks) - 1) :
            last.ret.chunks[i].position < last.ret.chunks[i + 1].position

\* C26: a semantic search of an existing index for which no searcher can be
\* opened is answered
\* by the brute-force fallback and never raises, and without an embedding
\* model the fallback answers with an empty result list.
SearchFallsBackWithoutSearcher ==
    (/\ last.op = "search"
     /\ last.code # 404
     /\ ~GetSearcher(searcher_cache, leann_index, leann_available).found) =>
        /\ last.code = 200
        /\ last.ret.answered = "brute_force"
        /\ ~last.arg.encoder => last.ret.results = <<>>

\* C27: no index carries settings with chunk_overlap >= chunk_size, and no
\* add_documents call chunks with chunk_overlap >= chunk_size, whether the
\* values come from the index settings or from the options of the request.
ChunkOverlapBelowChunkSize ==
    /\ index_exists => index_meta.chunk_overlap < index_meta.chunk_size
    /\ \A w \in Workers :
          ingest[w].pc # "idle" =>
              ingest[w].chunk_overlap < ingest[w].chunk_size

\* A completed DeleteDocument or UpdateDocument step leaves every chunk
\* file of the other documents in place and as it was.
OtherChunksKept ==
    (last'.op \in {"delete_document", "update_document"} /\ last'.code = 200) =>
        \A c \in DOMAIN chunks :
            chunks[c].document_id # last'.arg.id =>
                c \in DOMAIN chunks' /\ chunks'[c] = chunks[c]

\* C28: DeleteDocument(d) and UpdateDocument(d) leave the chunk records of
\* every other document of the index unchanged, also of a document whose id
\* starts with d followed by "_chunk_".
WritesLeaveOtherDocuments == [][OtherChunksKept]_vars

\* The step in which worker w writes the counters and returns raises the
\* counters of metadata.json by what its batch wrote.
CountersRaisedBy(w) ==
    (ingest[w].pc = "update_metadata" /\ ingest'[w].pc = "idle"
       /\ last'.code = 200) =>
        /\ index_meta'.chunk_count =
              index_meta.chunk_count + ingest[w].total_chunks
        /\ index_meta'.total_characters =
              index_meta.total_characters + ingest[w].total_chars

\* C29: the counter update of every completing add_documents batch is
\* additive, also when another batch runs beside it: no increment is lost.
CounterUpdatesAreAdditive == [][\A w \in Workers : CountersRaisedBy(w)]_vars

\* A semantic search step that queried the searcher and got hits to
\* translate used a searcher and an OrdinalMap that one build pass produced.
SearchUsesOneBuild ==
    (/\ last'.op = "search"
     /\ last' # last \/ searcher_cache' # searcher_cache
     /\ last'.code = 200
     /\ last'.ret.path = "ann"
     /\ last'.arg.ann.items # <<>>) =>
        [chunk_mapping |-> chunk_mapping, texts |-> last'.ret.searcher]
            \in builds

\* C30: whenever SemanticSearch translates ANN ordinals into chunk ids, the
\* artifact behind its searcher and the OrdinalMap it reads come from the
\* same rebuild.
OrdinalsMappedByTheirBuild == [][SearchUsesOneBuild]_vars

====
